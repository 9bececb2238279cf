------------------------------- MODULE Player -------------------------------
(***************************************************************************)
(* Playback of one file by the media server: avLoop of server-play-nms.c   *)
(* and the commands that start, steer and stop it.                         *)
(*                                                                         *)
(* Two threads share the player's statics under playMutex: the command     *)
(* thread (cmd) and avLoop (av), which moves media from the input plugin to *)
(* the output plugin and obeys the states the commands set.  A critical    *)
(* section of playMutex is one action, with the calls of plugins made in it *)
(* or next to it that nobody else can see.  What avLoop read in an earlier *)
(* section is in its locals pre and quit and in av, which is the state it  *)
(* is about to obey or a label of the place where it stands.               *)
(*                                                                         *)
(* Times are left out: a test on a time stamp goes either way.  So are the *)
(* muting of the sound, and what is only kept to be reported.              *)
(***************************************************************************)
EXTENDS Integers

CONSTANTS
  StartFaults,   \* steps of playFile that may fail
  EditModes      \* values SrvSetEditmode may give

Faults == {"notOurs", "inLocked", "inInit", "inStart", "outLocked", "outInit"}

ASSUME FaultsAssumption == StartFaults \subseteq Faults
ASSUME EditModesAssumption == EditModes \subseteq BOOLEAN

VARIABLES
  playing, playState, playedOrPaused, frameByFrame, editmode, iSeekFlag,
  ffrwLevel, sfrwLevel, sfrwLevelFinal, \* the statics of those names
  repeatAB,         \* rptState = NMS_PLAYBACK_REPEAT_ON
  avThread,         \* the handle is set
  av, pre, quit,    \* avLoop: where it stands, loc_preState, loc_quit
  cmd, caller,      \* the command thread: where it stands, in which command
  input, output,    \* external: states of the two plugins
  paused            \* external: the output is paused

stateVars == <<playState, playedOrPaused, frameByFrame>>
levelVars == <<ffrwLevel, sfrwLevel, sfrwLevelFinal>>
flagVars  == <<playing, iSeekFlag, repeatAB>>
localVars == <<pre, quit>>
plugVars  == <<input, output, paused>>
cmdVars   == <<cmd, caller, avThread, editmode>>

vars == <<stateVars, levelVars, flagVars, av, localVars, plugVars, cmdVars>>

-----------------------------------------------------------------------------
(* External: the plugins.  "bad" records a call made out of turn.           *)

UseInput == input' = IF input = "started" THEN input ELSE "bad"

(* InputFinish, and OutputFinish, which must not find the output paused.    *)
FinishPlugins ==
  /\ input' = IF input = "started" THEN "closed" ELSE "bad"
  /\ output' = IF output = "open" /\ ~paused' THEN "closed" ELSE "bad"

-----------------------------------------------------------------------------
(* avLoop: from the start to the main loop                                  *)

AvStart ==
  /\ av = "start"
  /\ playState' = IF editmode THEN "VF" ELSE "PLAY"
  /\ frameByFrame' = editmode
  /\ pre' = "STOPPED" /\ quit' = TRUE
  /\ av' = "preload"
  /\ UNCHANGED <<playedOrPaused, levelVars, flagVars, plugVars, cmdVars>>

(* Preloading ends, at the end of a short file with playing cleared.        *)
AvPreload ==
  /\ av = "preload"
  /\ UseInput
  /\ \/ UNCHANGED <<playing, quit>>
     \/ playing' = FALSE /\ quit' = FALSE
  /\ av' = "loop"
  /\ UNCHANGED <<stateVars, levelVars, iSeekFlag, repeatAB, pre, output, paused, cmdVars>>

(* Mutation: a paused avLoop goes on without a look at the playback flag.   *)
AvLoopPausedOn ==
  /\ av = "loop"
  /\ av' = IF playing \/ pre = "PAUSE" THEN playState ELSE "bail"
  /\ UNCHANGED <<stateVars, levelVars, flagVars, localVars, plugVars, cmdVars>>

(* main_play_loop: is it over?  If not, the state is read that is to be obeyed. *)
AvLoop ==
  /\ av = "loop"
  /\ av' = IF playing THEN playState ELSE "bail"
  /\ UNCHANGED <<stateVars, levelVars, flagVars, localVars, plugVars, cmdVars>>

-----------------------------------------------------------------------------
(* avLoop: the states                                                       *)

AvPause ==
  /\ av = "PAUSE"
  /\ IF pre # "PAUSE" THEN paused' = TRUE /\ playedOrPaused' = "PAUSE"
     ELSE UNCHANGED <<paused, playedOrPaused>>
  /\ pre' = "PAUSE"
  /\ av' = "loop"
  /\ UNCHANGED <<playState, frameByFrame, levelVars, flagVars, quit, input, output,
                 cmdVars>>

(* The seek request is read here, and withdrawn two sections later.         *)
AvPlay ==
  /\ av = "PLAY"
  /\ av' = IF iSeekFlag /\ pre # "PAUSE" THEN "seek"
           ELSE IF pre # "PLAY" THEN "resume" ELSE "repeat"
  /\ UNCHANGED <<stateVars, levelVars, flagVars, localVars, plugVars, cmdVars>>

(* Playback is resumed, after a pause or from another state.  Slow motion   *)
(* has its time divided by sfrwLevelFinal, whatever that then gives.        *)
AvResume ==
  /\ av = "resume"
  /\ playedOrPaused' = "PLAY" /\ pre' = "PLAY"
  /\ paused' = (paused /\ pre # "PAUSE")
  /\ IF pre = "SF" THEN UseInput ELSE UNCHANGED input
  /\ av' = "repeat"
  /\ UNCHANGED <<playState, frameByFrame, levelVars, flagVars, quit, output, cmdVars>>

(* A seek too close to the end of the file is not carried out.              *)
AvSeek ==
  /\ av = "seek"
  /\ playedOrPaused' = "PLAY" /\ pre' = "PLAY"
  /\ UseInput \/ UNCHANGED input
  /\ av' = "sought"
  /\ UNCHANGED <<playState, frameByFrame, levelVars, flagVars, quit, output, paused,
                 cmdVars>>

AvSought ==
  /\ av = "sought"
  /\ iSeekFlag' = FALSE
  /\ av' = "repeat"
  /\ UNCHANGED <<stateVars, levelVars, playing, repeatAB, localVars, plugVars, cmdVars>>

(* The first round of FF or RW.  The state is read again for loc_preState.  *)
AvScanEnter ==
  /\ av \in {"FF", "RW"} /\ pre # av
  /\ paused' = (paused /\ pre # "PAUSE")
  /\ pre' = playState
  /\ av' = "scan"
  /\ UNCHANGED <<stateVars, levelVars, flagVars, quit, input, output, cmdVars>>

AvScanAgain ==
  /\ av \in {"FF", "RW"} /\ pre = av
  /\ av' = "scan"
  /\ UNCHANGED <<stateVars, levelVars, flagVars, localVars, plugVars, cmdVars>>

AvScanIdle ==
  /\ av = "scan" /\ ffrwLevel = 0
  /\ av' = "loop"
  /\ UNCHANGED <<stateVars, levelVars, flagVars, localVars, plugVars, cmdVars>>

(* The scan steps the way loc_preState says while the level points the      *)
(* other: get_new_timestamp is retried for ever, with the mutex held.       *)
WrongWay == (pre = "FF" /\ ffrwLevel < 0) \/ (pre = "RW" /\ ffrwLevel > 0)

(* A step; repeat A-B sends it back to the mark it ran past.                *)
AvScanStep ==
  /\ av = "scan" /\ ffrwLevel # 0
  /\ UseInput
  /\ \/ av' = IF WrongWay THEN "spin" ELSE "repeat"
     \/ repeatAB /\ av' = "loop"
  /\ UNCHANGED <<stateVars, levelVars, flagVars, localVars, output, paused, cmdVars>>

(* Fast forward runs into the end of the file.                              *)
AvScanEnd ==
  /\ av = "scan" /\ ffrwLevel > 0 /\ pre = "FF"
  /\ UseInput
  /\ IF editmode
     THEN playState' = "PLAY" /\ av' = "repeat" /\ UNCHANGED quit
     ELSE quit' = FALSE /\ av' = "bail" /\ UNCHANGED playState
  /\ UNCHANGED <<playedOrPaused, frameByFrame, levelVars, flagVars, pre, output, paused,
                 cmdVars>>

(* Rewind runs into the start.                                              *)
AvScanStart ==
  /\ av = "scan" /\ ffrwLevel < 0 /\ pre # "FF"
  /\ UseInput
  /\ IF editmode
     THEN /\ playState' = "VF" /\ frameByFrame' = TRUE /\ pre' = "PLAY"
          /\ av' = "repeat"
          /\ UNCHANGED ffrwLevel
     ELSE /\ playState' = "PLAY" /\ ffrwLevel' = 0
          /\ av' = "loop"
          /\ UNCHANGED <<frameByFrame, pre>>
  /\ UNCHANGED <<playedOrPaused, sfrwLevel, sfrwLevelFinal, flagVars, quit, output,
                 paused, cmdVars>>

(* Frame by frame: the output is let go for the one frame fetched next.     *)
AvFrame ==
  /\ av = "VF"
  /\ paused' = (paused /\ ~frameByFrame)
  /\ playState' = "PAUSE"
  /\ av' = "repeat"
  /\ UNCHANGED <<playedOrPaused, frameByFrame, levelVars, flagVars, localVars, input,
                 output, cmdVars>>

AvSlow ==
  /\ av = "SF"
  /\ paused' = (paused /\ pre # "PAUSE")
  /\ pre' = "SF"
  /\ av' = "repeat"
  /\ UNCHANGED <<stateVars, levelVars, flagVars, quit, input, output, cmdVars>>

-----------------------------------------------------------------------------
(* avLoop: after the states, one buffer is moved                            *)

(* Repeat A-B: past B, seek to A.                                           *)
AvRepeat ==
  /\ av = "repeat"
  /\ (repeatAB /\ UseInput) \/ UNCHANGED input
  /\ av' = "fetch"
  /\ UNCHANGED <<stateVars, levelVars, flagVars, localVars, output, paused, cmdVars>>

(* No room in the output, no data, or a buffer is written: round again.  In *)
(* edit mode so it goes at the end of the file.                             *)
AvFetch ==
  /\ av = "fetch"
  /\ UseInput
  /\ \/ av' = "loop" /\ UNCHANGED quit
     \/ ~editmode /\ quit' = FALSE /\ av' = "bail"
  /\ UNCHANGED <<stateVars, levelVars, flagVars, pre, output, paused, cmdVars>>

-----------------------------------------------------------------------------
(* avLoop: from the label bail to the end                                   *)

AvBail ==
  /\ av = "bail"
  /\ ffrwLevel' = 0 /\ sfrwLevel' = 0
  /\ paused' = (paused /\ pre # "PAUSE")
  /\ av' = IF quit THEN "finish" ELSE "restore"
  /\ UNCHANGED <<stateVars, sfrwLevelFinal, flagVars, localVars, input, output, cmdVars>>

(* "Restore the playback flag, since we're still actually playing."         *)
AvRestore ==
  /\ av = "restore"
  /\ playing' = TRUE
  /\ av' = "drain"
  /\ UNCHANGED <<stateVars, levelVars, iSeekFlag, repeatAB, localVars, plugVars, cmdVars>>

(* While draining, playback may be asked for elsewhere in the file.         *)
Elsewhere == playState \in {"FF", "RW"} \/ (playState = "PLAY" /\ iSeekFlag)

(* Mutation: a pause asked for while draining is never lifted.              *)
AvDrainStaysPaused ==
  /\ av = "drain"
  /\ IF ~playing THEN av' = "finish" /\ UNCHANGED paused
     ELSE IF playState = "PAUSE" THEN paused' = TRUE /\ UNCHANGED av
     ELSE av' = (IF Elsewhere THEN "loop" ELSE "drain") /\ UNCHANGED paused
  /\ UNCHANGED <<stateVars, levelVars, flagVars, localVars, input, output, cmdVars>>

(* The output still holds media: obey the commands that come meanwhile, and *)
(* go back to the main loop if playback is to go on.                        *)
AvDrain ==
  /\ av = "drain"
  /\ IF ~playing THEN av' = "finish" /\ UNCHANGED paused
     ELSE IF playState = "PAUSE" THEN paused' = TRUE /\ UNCHANGED av
     ELSE av' = (IF Elsewhere THEN "loop" ELSE "drain") /\ paused' = FALSE
  /\ UNCHANGED <<stateVars, levelVars, flagVars, localVars, input, output, cmdVars>>

(* The output holds no more media: it plays what it has, unless paused.     *)
AvDrained ==
  /\ av = "drain"
  /\ av' = "finish"
  /\ UNCHANGED <<stateVars, levelVars, flagVars, localVars, plugVars, cmdVars>>

(* Mutation: a paused output is finished as it is.                          *)
AvFinishAsIs ==
  /\ av = "finish"
  /\ UNCHANGED paused
  /\ FinishPlugins
  /\ av' = "end"
  /\ UNCHANGED <<stateVars, levelVars, flagVars, localVars, cmdVars>>

(* "before finish output must make sure pause flag is cleared": after       *)
(* draining, and at bail when avLoop quits.                                 *)
AvFinish ==
  /\ av = "finish"
  /\ paused' = (paused /\ quit)
  /\ FinishPlugins
  /\ av' = "end"
  /\ UNCHANGED <<stateVars, levelVars, flagVars, localVars, cmdVars>>

(* Mutation: the end leaves the playback flag.                              *)
AvEndStillPlaying ==
  /\ av = "end"
  /\ repeatAB' = FALSE /\ playState' = "STOPPED"
  /\ av' = "done"
  /\ UNCHANGED <<playedOrPaused, frameByFrame, levelVars, playing, iSeekFlag, localVars,
                 plugVars, cmdVars>>

AvEnd ==
  /\ av = "end"
  /\ playing' = FALSE
  /\ repeatAB' = FALSE /\ playState' = "STOPPED"
  /\ av' = "done"
  /\ UNCHANGED <<playedOrPaused, frameByFrame, levelVars, iSeekFlag, localVars,
                 plugVars, cmdVars>>

-----------------------------------------------------------------------------
(* The command thread.  playMutex is free, except while avLoop seeks again  *)
(* and again because the scan gets no further.                              *)

Unlocked == av # "spin"
Called == cmd = "idle" /\ Unlocked
Return == cmd' = "idle" /\ caller' = "none"

(* stopServer, up to the join, at the start of a command                    *)
CommandStop(who) ==
  /\ Called
  /\ playing' = FALSE
  /\ cmd' = "join" /\ caller' = who
  /\ UNCHANGED <<stateVars, levelVars, iSeekFlag, repeatAB, av, localVars, plugVars,
                 avThread, editmode>>

SrvStop == CommandStop("SrvStop")
SrvPlayFile == CommandStop("SrvPlayFile")
SrvPlayHistory == CommandStop("SrvPlayHistory")

(* Mutation: stopPlaying does not wait for avLoop.                          *)
StopJoinNoWait ==
  /\ cmd = "join"
  /\ av' = IF av = "done" THEN "none" ELSE av
  /\ avThread' = FALSE
  /\ playState' = IF caller = "SrvPlayHistory" THEN "PLAY" ELSE playState
  /\ \/ caller # "SrvStop" /\ cmd' = "open" /\ UNCHANGED caller
     \/ caller # "SrvPlayFile" /\ Return
  /\ UNCHANGED <<playedOrPaused, frameByFrame, levelVars, flagVars, localVars, plugVars,
                 editmode>>

(* pthread_join in stopPlaying, and what the caller does then; whether      *)
(* SrvPlayHistory has a history to play is left open.                       *)
StopJoin ==
  /\ cmd = "join" /\ Unlocked
  /\ avThread => av = "done"
  /\ av' = "none" /\ avThread' = FALSE
  /\ playState' = IF caller = "SrvPlayHistory" THEN "PLAY" ELSE playState
  /\ \/ caller # "SrvStop" /\ cmd' = "open" /\ UNCHANGED caller
     \/ caller # "SrvPlayFile" /\ Return
  /\ UNCHANGED <<playedOrPaused, frameByFrame, levelVars, flagVars, localVars, plugVars,
                 editmode>>

(* playFile gives up: InputFinish, and stopPlaying finds nothing to join.   *)
(* The creation of avLoop is assumed to succeed.                            *)
PlayFileFails(fault) ==
  /\ cmd = "open" /\ fault \in StartFaults
  /\ Return
  /\ UNCHANGED <<stateVars, levelVars, flagVars, av, localVars, plugVars, avThread,
                 editmode>>

PlayFile ==
  /\ cmd = "open"
  /\ input' = IF input = "closed" THEN "started" ELSE "bad"
  /\ output' = IF output = "closed" THEN "open" ELSE "bad"
  /\ ffrwLevel' = 0 /\ sfrwLevel' = 0 /\ sfrwLevelFinal' = 0
  /\ playing' = TRUE
  /\ av' = "start" /\ avThread' = TRUE
  /\ cmd' = "opened"
  /\ UNCHANGED <<stateVars, iSeekFlag, repeatAB, localVars, paused, caller, editmode>>

(* SrvPlayFile ends; SrvPlayHistory goes on to SrvSeek to the mark.         *)
PlayFileReturns ==
  /\ cmd = "opened" /\ Unlocked
  /\ playState' = "PLAY"
  /\ IF caller = "SrvPlayHistory" THEN cmd' = "mark" /\ UNCHANGED caller ELSE Return
  /\ UNCHANGED <<playedOrPaused, frameByFrame, levelVars, flagVars, av, localVars,
                 plugVars, avThread, editmode>>

(* The section of SrvSeek                                                   *)
Seek ==
  /\ IF playing
     THEN iSeekFlag' = TRUE /\ playState' = "PLAY" /\ ffrwLevel' = 0 /\ sfrwLevel' = 0
     ELSE UNCHANGED <<iSeekFlag, playState, ffrwLevel, sfrwLevel>>
  /\ UNCHANGED <<playedOrPaused, frameByFrame, sfrwLevelFinal, playing, repeatAB, av,
                 localVars, plugVars, avThread, editmode>>

SrvSeek == Called /\ Seek /\ UNCHANGED <<cmd, caller>>
SeekToMark == cmd = "mark" /\ Unlocked /\ Seek /\ Return

(* What the commands that only set a state have in common                   *)
StateCommand ==
  /\ Called /\ playing
  /\ UNCHANGED <<playedOrPaused, playing, av, localVars, plugVars, cmdVars>>

SrvPauseUnpause ==
  /\ StateCommand
  /\ frameByFrame' = FALSE
  /\ LET resume == playState \notin {"PLAY", "PAUSE"} /\ playedOrPaused = "PLAY"
     IN /\ playState' = IF playState = "PAUSE" \/ resume THEN "PLAY" ELSE "PAUSE"
        /\ sfrwLevelFinal' = IF resume THEN sfrwLevel ELSE sfrwLevelFinal
        /\ ffrwLevel' = IF resume THEN 0 ELSE ffrwLevel
        /\ sfrwLevel' = IF resume THEN 0 ELSE sfrwLevel
  /\ UNCHANGED <<iSeekFlag, repeatAB>>

SrvFfRw(level) ==
  /\ StateCommand
  /\ sfrwLevel' = 0 /\ frameByFrame' = FALSE /\ iSeekFlag' = FALSE
  /\ ffrwLevel' = level
  /\ playState' = IF level = 0 THEN "PLAY" ELSE IF level > 0 THEN "FF" ELSE "RW"
  /\ UNCHANGED <<sfrwLevelFinal, repeatAB>>

SrvSfRw(level) ==
  /\ StateCommand
  /\ ffrwLevel' = 0 /\ frameByFrame' = FALSE /\ iSeekFlag' = FALSE
  /\ sfrwLevelFinal' = IF level = 0 THEN sfrwLevel ELSE 0
  /\ sfrwLevel' = level
  /\ playState' = IF level = 0 THEN "PLAY" ELSE "SF"
  /\ UNCHANGED repeatAB

SrvFrameByFrame(direction) ==
  /\ StateCommand
  /\ frameByFrame' = (direction # 0)
  /\ playState' = IF direction = 0 THEN "PLAY" ELSE "VF"
  /\ UNCHANGED <<levelVars, iSeekFlag, repeatAB>>

(* Repeat is on when B lies far enough behind A.                            *)
SrvRepeatAB(ab) ==
  /\ StateCommand
  /\ repeatAB' \in IF ab = 1 THEN BOOLEAN ELSE {FALSE}
  /\ UNCHANGED <<playState, frameByFrame, levelVars, iSeekFlag>>

SrvSetEditmode(mode) ==
  /\ Called
  /\ editmode' = mode
  /\ UNCHANGED <<stateVars, levelVars, flagVars, av, localVars, plugVars, cmd, caller,
                 avThread>>

-----------------------------------------------------------------------------
(* The static initialisers                                                  *)
Init ==
  /\ playing = FALSE /\ iSeekFlag = FALSE /\ repeatAB = FALSE
  /\ playState = "STOPPED" /\ playedOrPaused = "STOPPED" /\ frameByFrame = FALSE
  /\ ffrwLevel = 0 /\ sfrwLevel = 0 /\ sfrwLevelFinal = 0
  /\ av = "none" /\ pre = "STOPPED" /\ quit = TRUE
  /\ cmd = "idle" /\ caller = "none" /\ avThread = FALSE /\ editmode = FALSE
  /\ input = "closed" /\ output = "closed" /\ paused = FALSE

AvThread ==
  \/ AvStart \/ AvPreload \/ AvLoop
  \/ AvPause \/ AvPlay \/ AvResume \/ AvSeek \/ AvSought
  \/ AvScanEnter \/ AvScanAgain \/ AvScanIdle \/ AvScanStep \/ AvScanEnd \/ AvScanStart
  \/ AvFrame \/ AvSlow \/ AvRepeat \/ AvFetch
  \/ AvBail \/ AvRestore \/ AvDrain \/ AvFinish \/ AvEnd

Continue ==
  \/ StopJoin \/ PlayFile \/ PlayFileReturns \/ SeekToMark
  \/ \E fault \in Faults : PlayFileFails(fault)

Call ==
  \/ SrvStop \/ SrvPlayFile \/ SrvPlayHistory
  \/ SrvSeek \/ SrvPauseUnpause
  \/ \E level \in -1..1 : SrvFfRw(level)
  \/ \E level \in 0..1 : SrvSfRw(level)
  \/ \E direction \in 0..1 : SrvFrameByFrame(direction)
  \/ \E ab \in -1..1 : SrvRepeatAB(ab)
  \/ \E mode \in EditModes : SrvSetEditmode(mode)

Next == AvThread \/ AvDrained \/ Continue \/ Call

(* Threads that are not blocked run, and an output that is not paused plays *)
(* to its end; nobody has to give a command.                                *)
Fairness == WF_vars(AvThread) /\ WF_vars(~paused /\ AvDrained) /\ WF_vars(Continue)

Spec == Init /\ [][Next]_vars /\ Fairness

-----------------------------------------------------------------------------
(* Properties                                                               *)

AvLabels == {"none", "start", "preload", "loop", "resume", "seek", "sought", "scan", "spin",
             "repeat", "fetch", "bail", "restore", "drain", "finish", "end", "done"}
States == {"PLAY", "PAUSE", "FF", "RW", "VF", "SF", "STOPPED"}

FlagTypes ==
  /\ playing \in BOOLEAN /\ iSeekFlag \in BOOLEAN /\ repeatAB \in BOOLEAN
  /\ frameByFrame \in BOOLEAN /\ editmode \in BOOLEAN /\ quit \in BOOLEAN
  /\ avThread \in BOOLEAN /\ paused \in BOOLEAN

LevelTypes == ffrwLevel \in -1..1 /\ sfrwLevel \in 0..1 /\ sfrwLevelFinal \in 0..1

StaticTypes ==
  /\ playState \in States /\ playedOrPaused \in {"PLAY", "PAUSE", "STOPPED"}
  /\ av \in AvLabels \cup States /\ pre \in States
  /\ cmd \in {"idle", "join", "open", "opened", "mark"}
  /\ caller \in {"none", "SrvStop", "SrvPlayFile", "SrvPlayHistory"}
  /\ input \in {"closed", "started", "bad"} /\ output \in {"closed", "open", "bad"}

HandleSet == avThread <=> av # "none"

(* The statics and the threads keep their types; avLoop exists exactly as   *)
(* long as its handle is set.                                               *)
TypeOK == FlagTypes /\ LevelTypes /\ StaticTypes /\ HandleSet

(* The two plugins are opened when closed, finished once per playback and   *)
(* used only in between, and the output is never finished while paused,     *)
(* whatever sequence of states and whichever end the playback goes through. *)
PluginProtocol == input # "bad" /\ output # "bad"

(* When a stop has joined avLoop, playback is over: no thread, both plugins *)
(* closed, nothing playing and nothing paused.                              *)
ClosedAfterStop ==
  cmd = "open" \/ ~avThread =>
    av = "none" /\ ~playing /\ input = "closed" /\ output = "closed" /\ ~paused

(* A stop that finds avLoop before the end of the file, playing, paused or   *)
(* in slow motion, gets it to exit, unless the end of the file comes first. *)
(* Nothing is said of an avLoop that gets no further with its scan: it holds *)
(* playMutex meanwhile, for ever if the level has changed its sign since    *)
(* avLoop read the direction, and then the stop hangs with it.              *)
StopBeforeEnd ==
  cmd = "join" /\ avThread /\ quit /\ Unlocked ~> ~avThread \/ ~quit \/ ~Unlocked

(* "properly make sure it goes all to TV before we're done": at the end of  *)
(* the file the output is drained and finished, unless it is paused or the  *)
(* user goes elsewhere in the file.                                         *)
DrainEnds == av = "drain" ~> av \in {"done", "none"} \/ playState = "PAUSE" \/ Elsewhere

(* What avLoop and the two plugins make up together; "broken" is no phase.  *)
Phase ==
  CASE ~avThread /\ input = "closed" /\ output = "closed" -> "closed"
    [] avThread /\ input = "started" /\ output = "open" -> "open"
    [] avThread /\ input = "closed" /\ output = "closed" -> "over"
    [] OTHER -> "broken"

(* This is a playback as its callers know it: opened after the last one was *)
(* stopped, closed as a whole whichever way avLoop ends, never while the    *)
(* output is paused, and gone when a stop returns.                          *)
Abstract == INSTANCE Playback WITH phase <- Phase, stopping <- cmd = "join"
ImplementsPlayback == Abstract!Spec

(* "This is because the server will freeze otherwise and be unable to process *)
(* commands (like STOP or PAUSE)": a stop of a file at its end returns.       *)
StopReturns == cmd = "join" ~> cmd # "join"

(* "if sfrw exit, record the sfrwLevel to restore right play time": the time *)
(* is restored by a division by the level recorded.                          *)
SlowLevelRecorded == av = "resume" /\ pre = "SF" => sfrwLevelFinal # 0

=============================================================================
