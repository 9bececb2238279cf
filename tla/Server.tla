------------------------------- MODULE Server -------------------------------
(***************************************************************************)
(* The media server as a whole: the commands of server-main.c, and which   *)
(* plugin each of its parts reaches through the wrappers of Plugins.       *)
(*                                                                         *)
(* Five threads call wrappers: the command thread (cmd), avLoop (av),      *)
(* nextFileLoop (nx), the recording threads (rec, taken together) and the  *)
(* monitor's garbage collector (gc).  Two procedures are run by two of      *)
(* them: playFile (pf) and start_srv (ms).  The parts are kept to their     *)
(* wrapper calls and to what decides on them: the rest of playback is in   *)
(* Player and PlayDir, of recording in Recorder, and of the monitor, its    *)
(* output modes and its list of requests in Monitor.  A command that only  *)
(* asks is none of the steps, unless a wrapper has no plugin to call.      *)
(***************************************************************************)
EXTENDS Plugins

CONSTANT Modes       \* what clients may set the input and the output mode to
ASSUME ModesAssumption == Modes \subseteq {"NTSC", "PAL"}

VARIABLES
  up,                       \* the daemon has not crashed
  cmd, caller,              \* the command thread: where it stands, in which command
  going, playtype,          \* statics of server-play-nms.c
  history,                  \* history.type, if there is a history
  av, nx, pf,               \* where avLoop, nextFileLoop and playFile stand
  sound,                    \* the codec of the file playFile plays
  image, imageShowed, shownMode, \* statics of server-slideshow-nms.c
  rec,                      \* where the threads of server-record-nms.c stand
  just_recorded,
  monitor, monitorMode, ms, \* statics of server-monitor-nms.c; where start_srv stands
  modes                     \* inNTSC_PAL and outNTSC_PAL of the wrappers, as one

cmdVars  == <<cmd, caller>>
playVars == <<going, playtype, history, av, nx, pf, sound>>
slideVars == <<image, imageShowed, shownMode>>
recVars == <<rec, just_recorded>>
monVars == <<monitor, monitorMode, ms>>

vars == <<pluginVars, up, cmdVars, playVars, slideVars, recVars, monVars, modes>>

Players == {"cmd", "nx"}
Starters == {"cmd", "gc"}
Called == cmd = "idle"
Return == cmd' = "idle" /\ caller' = "none"

-----------------------------------------------------------------------------
(* playFile, by thread p                                                    *)

(* It did not work: nextFileLoop goes on to another file or ends, the       *)
(* command tries another file of the directory or gives up.                 *)
Refused(p) ==
  IF p = "nx"
  THEN /\ pf' = [pf EXCEPT ![p] = "none"]
       /\ \/ nx' = "wait" /\ UNCHANGED going
          \/ nx' = "none" /\ going' = FALSE
       /\ UNCHANGED cmdVars
  ELSE /\ \/ playtype = "DIR" /\ pf' = [pf EXCEPT ![p] = "select"] /\ UNCHANGED <<going, cmdVars>>
          \/ /\ pf' = [pf EXCEPT ![p] = "none"]
             /\ going' = (going /\ playtype = "FILE")
             /\ Return
       /\ UNCHANGED nx

PlaySelect(p) ==
  /\ pf[p] = "select"
  /\ \E type \in Types :
       /\ InputIsOurFile(type)
       /\ IF type \in loaded.output
          THEN pf' = [pf EXCEPT ![p] = "init"] /\ UNCHANGED <<cmdVars, going, nx>>
          ELSE Refused(p)
  /\ UNCHANGED <<decActv, inOpen, decOpen, outUser, playtype, history, av, sound>>

NotOurFile(p) ==
  /\ pf[p] = "select"
  /\ Refused(p)
  /\ UNCHANGED <<inVars, outVars, playtype, history, av, sound>>

PlayInput(p) ==
  /\ pf[p] = "init"
  /\ sound' \in Codecs \cup {PICTURE, NO_AUDIO}
  /\ InputInit(sound')
  /\ pf' = [pf EXCEPT ![p] = "output"]
  /\ UNCHANGED <<cmdVars, outVars, going, playtype, history, av, nx>>

PlayInputFails(p) ==
  /\ pf[p] = "init"
  /\ InputInitFails
  /\ pf' = [pf EXCEPT ![p] = "finish"]
  /\ UNCHANGED <<cmdVars, outVars, going, playtype, history, av, nx, sound>>

(* The end of playFile, and of the command that called it.  avLoop is there. *)
PlayOutput(p) ==
  /\ pf[p] = "output"
  /\ OutputInit("playback")
  /\ av' = "run"
  /\ pf' = [pf EXCEPT ![p] = "none"]
  /\ nx' = IF playtype = "DIR" THEN "wait" ELSE nx
  /\ IF p = "cmd" /\ caller # "SrvPlayHistory" THEN Return
     ELSE cmd' = (IF p = "cmd" THEN "seek" ELSE cmd) /\ UNCHANGED caller
  /\ UNCHANGED <<inVars, going, playtype, history, sound>>

(* InputStart or OutputInit fails.                                          *)
PlayOutputFails(p) ==
  /\ pf[p] = "output"
  /\ pf' = [pf EXCEPT ![p] = "finish"]
  /\ UNCHANGED <<cmdVars, inVars, outVars, going, playtype, history, av, nx, sound>>

(* Mutation: an input that failed to be initialised is not cleaned up.      *)
PlayFinishNothing(p) ==
  /\ pf[p] = "finish"
  /\ Refused(p)
  /\ UNCHANGED <<inVars, outVars, playtype, history, av, sound>>

(* bail_clean_input                                                         *)
PlayFinish(p) ==
  /\ pf[p] = "finish"
  /\ InputFinish
  /\ Refused(p)
  /\ UNCHANGED <<outVars, playtype, history, av, sound>>

PlayFile ==
  /\ up
  /\ \E p \in Players :
       \/ PlaySelect(p) \/ NotOurFile(p) \/ PlayInput(p) \/ PlayInputFails(p)
       \/ PlayOutput(p) \/ PlayOutputFails(p) \/ PlayFinish(p)
  /\ UNCHANGED <<loaded, encVars, slideVars, recVars, monVars, modes, up>>

-----------------------------------------------------------------------------
(* avLoop and nextFileLoop                                                  *)

(* The end of the file, or a stop: both plugins are finished.               *)
AvEnd ==
  /\ av = "run"
  /\ InputFinish /\ OutputFinish
  /\ av' = "done"
  /\ UNCHANGED <<cmdVars, going, playtype, history, nx, pf, sound>>

(* The next file: the last one ended, or the user changed the track.        *)
NextStop ==
  /\ nx = "wait" /\ going
  /\ nx' = "join"
  /\ UNCHANGED <<cmdVars, inVars, outVars, going, playtype, history, av, pf, sound>>

(* Mutation: the playback is not waited for.                                *)
AvGoneOrNot == TRUE

(* stopPlaying joins avLoop.                                                *)
AvGone == av # "run"

(* The next file, or the order of play is at its end.                      *)
NextJoin ==
  /\ nx = "join" /\ AvGone
  /\ av' = "none"
  /\ \/ nx' = "play" /\ pf' = [pf EXCEPT !["nx"] = "select"] /\ UNCHANGED going
     \/ nx' = "none" /\ going' = FALSE /\ UNCHANGED pf
  /\ UNCHANGED <<cmdVars, inVars, outVars, playtype, history, sound>>

PlayThreads ==
  /\ up
  /\ AvEnd \/ NextStop \/ NextJoin
  /\ UNCHANGED <<loaded, encVars, slideVars, recVars, monVars, modes, up>>

-----------------------------------------------------------------------------
(* CMD_PLAY and CMD_STOP_PLAY                                               *)

(* stopServer tells nextFileLoop to end.                                    *)
StopServer(who) ==
  /\ Called
  /\ going' = FALSE
  /\ cmd' = "joinNext" /\ caller' = who
  /\ UNCHANGED <<inVars, outVars, playtype, av, nx, pf, sound>>

(* What was played is kept, if anything has been shown of it.               *)
SrvStop ==
  /\ StopServer("SrvStop")
  /\ history' \in {history} \cup (IF going THEN {playtype} ELSE {})
  /\ UNCHANGED just_recorded

(* NPT_HISTORY plays a recording that was not played yet as a file.         *)
StartPlay ==
  /\ \/ StopServer("SrvPlayFile") /\ just_recorded' = FALSE
     \/ StopServer("SrvPlayDir") /\ just_recorded' = FALSE
     \/ ~just_recorded /\ StopServer("SrvPlayHistory") /\ UNCHANGED just_recorded
  /\ UNCHANGED history

JoinNext ==
  /\ cmd = "joinNext" /\ nx \in {"none", "wait"}
  /\ nx' = "none"
  /\ cmd' = "joinAv"
  /\ UNCHANGED <<caller, inVars, outVars, going, playtype, history, av, pf, sound,
                 just_recorded>>

(* Mutation: that there is no history is not looked at.                     *)
HasHistoryAlways == TRUE

(* GetPlayHistory                                                           *)
HasHistory == history # "none"

(* A directory may not be there, or there is no history to play.            *)
JoinAv ==
  /\ cmd = "joinAv" /\ AvGone
  /\ av' = "none"
  /\ \/ caller = "SrvStop" /\ Return /\ UNCHANGED <<going, playtype, pf>>
     \/ caller = "SrvPlayHistory" /\ ~HasHistory /\ Return
        /\ UNCHANGED <<going, playtype, pf>>
     \/ /\ caller # "SrvStop" /\ (caller = "SrvPlayHistory" => HasHistory)
        /\ going' = TRUE
        /\ playtype' = CASE caller = "SrvPlayFile" -> "FILE"
                         [] caller = "SrvPlayDir" -> "DIR"
                         [] OTHER -> history
        /\ \/ cmd' = "play" /\ pf' = [pf EXCEPT !["cmd"] = "select"] /\ UNCHANGED caller
           \/ playtype' = "DIR" /\ Return /\ UNCHANGED pf
  /\ UNCHANGED <<inVars, outVars, history, nx, sound, just_recorded>>

(* SrvPlayHistory ends with SrvSeek, which asks the input what it can do.   *)
SeekToMark ==
  /\ cmd = "seek" /\ inActv # NULL
  /\ Return
  /\ UNCHANGED <<inVars, outVars, playVars, just_recorded>>

PlayCommands ==
  /\ up
  /\ SrvStop \/ StartPlay \/ JoinNext \/ JoinAv \/ SeekToMark
  /\ UNCHANGED <<loaded, encVars, slideVars, rec, monVars, modes, up>>

-----------------------------------------------------------------------------
(* The slide show                                                           *)

SrvSlideShowSetImage ==
  /\ Called
  /\ image' \in {"picture", "other"}
  /\ UNCHANGED <<cmdVars, outVars, imageShowed, shownMode>>

(* Mutation: what is shown is not hidden before it is shown anew.           *)
SrvStartSlideShowAgain ==
  /\ Called
  /\ ~imageShowed \/ shownMode # modes
  /\ imageShowed' = FALSE
  /\ OutputSelect(MULTIMEDIA) /\ UNCHANGED outUser
  /\ cmd' = "slide" /\ UNCHANGED caller
  /\ UNCHANGED <<image, shownMode>>

(* A picture is shown unless it is already, in the present modes; if in     *)
(* others it is hidden first.                                               *)
SrvStartSlideShow ==
  /\ Called
  /\ ~imageShowed \/ shownMode # modes
  /\ imageShowed' = FALSE
  /\ IF image = "picture"
     THEN OutputSelect(MULTIMEDIA) /\ cmd' = "slide" /\ UNCHANGED caller
     ELSE UNCHANGED <<outActv, cmdVars>>
  /\ outUser' = IF imageShowed THEN [outUser EXCEPT ![outActv] = "nobody"] ELSE outUser
  /\ UNCHANGED <<image, shownMode>>

(* Whether imageshow finds a buffer or not, the image counts as shown.      *)
SlideOutput ==
  /\ cmd = "slide" /\ outActv # NULL
  /\ \/ OutputInit("slideshow") /\ imageShowed' = TRUE /\ shownMode' = modes
     \/ UNCHANGED <<outVars, imageShowed, shownMode>>
  /\ Return
  /\ UNCHANGED image

SrvStopSlideShow ==
  /\ Called /\ imageShowed
  /\ OutputFinish
  /\ imageShowed' = FALSE
  /\ UNCHANGED <<cmdVars, image, shownMode>>

SlideShow ==
  /\ up
  /\ SrvSlideShowSetImage \/ SrvStartSlideShow \/ SlideOutput \/ SrvStopSlideShow
  /\ UNCHANGED <<loaded, inVars, encVars, playVars, recVars, monVars, modes, up>>

-----------------------------------------------------------------------------
(* Recording                                                                *)

(* The recording threads leave: told to, or because of an error; or those   *)
(* that SrvRecord left behind.  The last one finishes what actv points to.  *)
RecThreadsLeave ==
  /\ rec \in {"run", "orphan"}
  /\ rec' = "done"
  /\ EncInputFinish
  /\ encOutOpen' = encOutOpen \ {encOutActv}
  /\ UNCHANGED <<cmdVars, encInActv, encOutActv, outVars, just_recorded>>

(* CMD_RECORD and CMD_STOP_RECORD begin with SrvStopRecord.                 *)
StartRecord ==
  /\ Called
  /\ just_recorded' = TRUE
  /\ cmd' = "recJoin" /\ caller' = "SrvRecord"
  /\ UNCHANGED <<rec, encVars, outVars>>

SrvStopRecord ==
  /\ Called
  /\ cmd' = "recJoin" /\ caller' = "SrvStopRecord"
  /\ UNCHANGED <<rec, just_recorded, encVars, outVars>>

RecJoin ==
  /\ cmd = "recJoin" /\ rec \in {"none", "done"}
  /\ rec' = "none"
  /\ IF caller = "SrvRecord" THEN cmd' = "recOpen" /\ UNCHANGED caller ELSE Return
  /\ UNCHANGED <<just_recorded, encVars, outVars>>

(* The encoder output: not supported, failing, or open; the threads wait.   *)
RecOpen ==
  /\ cmd = "recOpen"
  /\ \E type \in loaded.encInput :
       EncOutputIsOurFormat(type) /\ encOutOpen' = encOutOpen \cup {type}
  /\ OutputSelect(MULTIMEDIA)
  /\ cmd' = "recInput"
  /\ UNCHANGED <<caller, rec, just_recorded, encInUser, outUser>>

RecOpenFails ==
  /\ cmd = "recOpen"
  /\ \/ UNCHANGED <<encInActv, encOutActv, outActv>>
     \/ \E type \in Types :
          /\ EncOutputIsOurFormat(type)
          /\ IF type \in loaded.encInput THEN OutputSelect(MULTIMEDIA) ELSE UNCHANGED outActv
  /\ Return
  /\ UNCHANGED <<rec, just_recorded, encInUser, encOutOpen, outUser>>

RecInput ==
  /\ cmd = "recInput"
  /\ EncInputInit("recorder")
  /\ rec' = "run"
  /\ Return
  /\ UNCHANGED <<just_recorded, encInActv, encOutActv, encOutOpen, outVars>>

(* bail1: the threads have been created, and nobody wakes or joins them.    *)
RecInputFails ==
  /\ cmd = "recInput"
  /\ encOutOpen' = encOutOpen \ {encOutActv}
  /\ rec' = "orphan"
  /\ Return
  /\ UNCHANGED <<just_recorded, encInActv, encOutActv, encInUser, outVars>>

Recording ==
  /\ up
  /\ \/ RecThreadsLeave \/ StartRecord \/ SrvStopRecord \/ RecJoin
     \/ RecOpen \/ RecOpenFails \/ RecInput \/ RecInputFails
  /\ UNCHANGED <<loaded, inVars, playVars, slideVars, monVars, modes, up>>

-----------------------------------------------------------------------------
(* The monitor.  Its mutex is taken while start_srv runs, unless a change of *)
(* the output mode has it run.                                              *)

MutexFree == ms["gc"] = "none" /\ cmd # "monitor"

(* garbageLoop: the requests of the dead are forgotten.                     *)
GcCheck ==
  /\ MutexFree
  /\ ms' = [ms EXCEPT !["gc"] = "start"]
  /\ UNCHANGED <<cmdVars, monitor, monitorMode, encVars, outVars>>

SrvStartMonitor ==
  /\ Called /\ MutexFree
  /\ ms' = [ms EXCEPT !["cmd"] = "start"]
  /\ cmd' = "monitor"
  /\ UNCHANGED <<caller, monitor, monitorMode, encVars, outVars>>

(* CMD_SET_OUTPUT_MODE: a monitor that is on is started anew.               *)
SetOutputMode ==
  /\ Called
  /\ modes' \in Modes
  /\ IF monitor THEN cmd' = "mode" /\ ms' = [ms EXCEPT !["cmd"] = "start"]
     ELSE UNCHANGED <<cmd, ms>>
  /\ UNCHANGED <<caller, monitor, monitorMode, encVars, outVars>>

SrvStopMonitor ==
  /\ Called /\ MutexFree
  /\ monitor' = FALSE
  /\ IF monitor THEN EncInputFinish ELSE UNCHANGED encInUser
  /\ UNCHANGED <<cmdVars, monitorMode, ms, encInActv, encOutActv, encOutOpen, outVars>>

MonitorDone(p) ==
  /\ ms' = [ms EXCEPT ![p] = "none"]
  /\ cmd' = IF p = "cmd" THEN "idle" ELSE cmd

(* start_srv: nothing to do, or stop_srv first, and the plugins are chosen. *)
MonitorSelect(p) ==
  /\ ms[p] = "start"
  /\ IF monitor /\ monitorMode = modes
     THEN MonitorDone(p) /\ UNCHANGED <<monitor, encVars, outVars>>
     ELSE /\ IF monitor THEN EncInputFinish ELSE UNCHANGED encInUser
          /\ monitor' = FALSE
          /\ EncInputSelect(MULTIMEDIA) /\ OutputSelect(MULTIMEDIA)
          /\ ms' = [ms EXCEPT ![p] = "init"]
          /\ UNCHANGED <<cmd, encOutActv, encOutOpen, outUser>>
  /\ UNCHANGED <<caller, monitorMode>>

(* OutputActivateMode and EncInputInit                                      *)
MonitorInit(p) ==
  /\ ms[p] = "init" /\ outActv # NULL /\ encInActv # NULL
  /\ \/ /\ EncInputInit("monitor")
        /\ monitor' = TRUE /\ monitorMode' = modes
     \/ UNCHANGED <<monitor, monitorMode, encInUser>>
  /\ MonitorDone(p)
  /\ UNCHANGED <<caller, encInActv, encOutActv, encOutOpen, outVars>>

Monitoring ==
  /\ up
  /\ \/ SetOutputMode
     \/ /\ \/ GcCheck \/ SrvStartMonitor \/ SrvStopMonitor
           \/ \E p \in Starters : MonitorSelect(p) \/ MonitorInit(p)
        /\ UNCHANGED modes
  /\ UNCHANGED <<loaded, inVars, playVars, slideVars, recVars, up>>

-----------------------------------------------------------------------------
(* The other commands                                                       *)

SetInputMode ==
  /\ up /\ Called
  /\ modes' \in Modes
  /\ UNCHANGED <<pluginVars, cmdVars, playVars, slideVars, recVars, monVars, up>>

(* A wrapper is called while its list has no plugin chosen, and the daemon  *)
(* dies: CMD_SEEK, CMD_FF_RW, CMD_SF_RW; volume and play time; gain; capture; *)
(* the monitor and the slide show without their plugins.                    *)
NullCalled ==
  \/ inActv = NULL /\ cmd \in {"idle", "seek"}
  \/ outActv = NULL /\ (cmd \in {"idle", "slide"} \/ \E p \in Starters : ms[p] = "init")
  \/ encInActv = NULL /\ (Called \/ \E p \in Starters : ms[p] = "init")
  \/ ~loaded.capture /\ Called

-----------------------------------------------------------------------------
(* The daemon                                                               *)

(* NmsSrvInit: the plugins are loaded and the collector is started, which   *)
(* starts the monitor.                                                      *)
Init ==
  /\ PluginLoad
  /\ up = TRUE
  /\ cmd = "idle" /\ caller = "none"
  /\ going = FALSE /\ playtype = "FILE" /\ history = "none"
  /\ av = "none" /\ nx = "none" /\ pf = [p \in Players |-> "none"] /\ sound = NO_AUDIO
  /\ image = "other" /\ imageShowed = FALSE /\ shownMode = "NTSC"
  /\ rec = "none" /\ just_recorded = FALSE
  /\ monitor = FALSE /\ monitorMode = "NTSC"
  /\ ms = [p \in Starters |-> IF p = "gc" THEN "start" ELSE "none"]
  /\ modes = "NTSC"

(* CMD_STOP_SERVER, or a signal, ends the daemon anywhere: a behaviour may  *)
(* stop after each step.  This is its other end.                            *)
Crash ==
  /\ up /\ NullCalled
  /\ up' = FALSE
  /\ UNCHANGED <<pluginVars, cmdVars, playVars, slideVars, recVars, monVars, modes>>

Next ==
  \/ PlayFile \/ PlayThreads \/ PlayCommands \/ SlideShow \/ Recording \/ Monitoring
  \/ SetInputMode \/ Crash

Spec == Init /\ [][Next]_vars

-----------------------------------------------------------------------------
(* Properties                                                               *)

PluginTypes ==
  /\ loaded \in Lists
  /\ inActv \in Types \cup {NULL} /\ outActv \in Types \cup {NULL}
  /\ encInActv \in Types \cup {NULL} /\ encOutActv \in Types \cup {NULL}
  /\ decActv \in Codecs \cup {NULL}
  /\ inOpen \subseteq Types /\ decOpen \subseteq Codecs /\ encOutOpen \subseteq Types
  /\ outUser \in [Types -> {"nobody", "playback", "slideshow"}]
  /\ encInUser \in [Types -> {"nobody", "recorder", "monitor"}]

FlagTypes ==
  /\ up \in BOOLEAN /\ going \in BOOLEAN /\ imageShowed \in BOOLEAN
  /\ just_recorded \in BOOLEAN /\ monitor \in BOOLEAN

StaticTypes ==
  /\ cmd \in {"idle", "joinNext", "joinAv", "play", "seek", "slide", "recJoin", "recOpen",
             "recInput", "monitor", "mode"}
  /\ caller \in {"none", "SrvStop", "SrvPlayFile", "SrvPlayDir", "SrvPlayHistory", "SrvRecord",
                "SrvStopRecord"}
  /\ playtype \in {"FILE", "DIR"} /\ history \in {"none", "FILE", "DIR"}
  /\ av \in {"none", "run", "done"} /\ nx \in {"none", "wait", "join", "play"}
  /\ pf \in [Players -> {"none", "select", "init", "output", "finish"}]
  /\ sound \in Codecs \cup {PICTURE, NO_AUDIO}
  /\ image \in {"picture", "other"}
  /\ shownMode \in {"NTSC", "PAL"} /\ monitorMode \in {"NTSC", "PAL"}
  /\ modes \in {"NTSC", "PAL"}
  /\ rec \in {"none", "run", "orphan", "done"}
  /\ ms \in [Starters -> {"none", "start", "init"}]

(* The plugins' pointers and the statics and threads of the server keep     *)
(* their types.                                                             *)
TypeOK == PluginTypes /\ FlagTypes /\ StaticTypes

(* Whoever uses the output has initialised the plugin that the wrappers now *)
(* call: the playback writes to it and finishes it, the slide show hides    *)
(* what it showed.  And only what is used is initialised.                   *)
OutputOwned ==
  /\ av = "run" => outActv # NULL /\ outUser[outActv] = "playback"
  /\ imageShowed => outActv # NULL /\ outUser[outActv] = "slideshow"
  /\ \A t \in Types : outUser[t] # "nobody" => t = outActv /\ (av = "run" \/ imageShowed)

(* Four parts of the server choose the plugin, and playbacks begin and end  *)
(* in threads of their own: whoever uses the output keeps it, and leaves it *)
(* to the next, unless another plugin is chosen while one is in use.        *)
OutputKept ==
  [][OutputOwned /\ (outActv' = outActv \/ \A t \in Types : outUser[t] = "nobody")
       => OutputOwned']_vars

(* "1 if output already locked by others": an output that is locked has been *)
(* initialised by a playback or a slide show that is still there.           *)
LockedByOthers ==
  \A t \in Types : /\ outUser[t] = "playback" => av = "run"
                   /\ outUser[t] = "slideshow" => imageShowed

Using == {p \in Players : pf[p] \in {"output", "finish"}}

(* An input is open while somebody uses it, it is the one that the wrappers *)
(* call, and nobody else has begun to open another: neither a file that     *)
(* could not be played nor a stopped one leaves its plugin open, whichever  *)
(* thread played it, and avLoop never calls a plugin that is not there.     *)
InputOwned ==
  /\ av = "run" => inActv # NULL /\ inOpen = {inActv}
  /\ inOpen # {} => inOpen = {inActv} /\ (av = "run" \/ Using # {})
  /\ av = "run" => \A p \in Players : pf[p] = "none"

(* The sound of a file is decoded by the decoder of its codec, which is     *)
(* initialised, or by none: the one of an earlier file is not used on it.   *)
DecoderFits ==
  av = "run" /\ sound # PICTURE =>
    /\ decActv = IF sound \in loaded.decoder THEN sound ELSE NULL
    /\ decActv # NULL => decActv \in decOpen

Phase ==
  CASE av = "none" -> "closed"
    [] av = "run" /\ inOpen # {} -> "open"
    [] av = "done" /\ inOpen = {} -> "over"
    [] OTHER -> "broken"

(* Seen from its input, which no other part of the server opens, the        *)
(* playback is still that of Player and PlayDir: opened once, closed once   *)
(* and before the next, by whichever thread.                                *)
Abstract == INSTANCE Playback
              WITH phase <- Phase, stopping <- (cmd = "joinAv" \/ nx = "join"), paused <- FALSE
ImplementsPlayback == Abstract!Spec

(* "Then system will start the monitor and do its best to keep it running   *)
(* until someone requests it down": the encoder input that the monitor      *)
(* opened stays open as long as it is on.                                   *)
EncInputOwned == monitor => encInActv # NULL /\ encInUser[encInActv] = "monitor"

=============================================================================
