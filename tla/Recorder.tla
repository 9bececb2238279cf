------------------------------ MODULE Recorder ------------------------------
(***************************************************************************)
(* The recording service of the media server, server-record-nms.c.         *)
(*                                                                         *)
(* Three threads share the recorder's static variables under recordMutex:  *)
(* the command thread (SrvRecord, SrvPauseRecord, SrvStopRecord) and, while*)
(* a recording exists, audLoop and vidLoop, each of which fetches frames of*)
(* its stream and calls avsync_save_frame.  A critical section of          *)
(* recordMutex is one action; what happens between two sections, each      *)
(* pthread_cond_broadcast (always made after the unlock) and each call of  *)
(* an encoder plugin made without the mutex is an action of its own.       *)
(* pc[t] is where worker thread t stands, cmd where the command thread does.*)
(***************************************************************************)
EXTENDS Integers, FiniteSets

CONSTANTS
  Medias,         \* kinds of recording: sets of streams mdesc may announce
  StartFaults,    \* steps of SrvRecord that may fail
  CommitFaults,   \* whether EncOutputCommit may fail
  MaxTs,          \* bound: the last raw time stamp captured, for each kind of recording
  MaxLateTs,      \* bound: the same once late
  FrameSizes,     \* sizes of the frames it delivers
  DiskSizes,      \* free space statvfs may report
  Finalizations,  \* space the output plugin may ask for to close the file
  ScratchSpace,   \* requirements.disk_scratch_space
  UIntMod,        \* 2^width of unsigned int
  MaxLength,      \* MAX_LENGTH, in the unit of timestamp
  TsIncrement,    \* SAMPLE_RATE * TSMS_INCREMENT / sample_rate
  AvSync          \* AV_SYNC * SAMPLE_RATE / sample_rate

Streams == {"audio", "video"}

Faults == {"format", "outInit", "outStart", "statvfs", "createAudio",
           "createVideo", "inInit", "inStart"}

ASSUME MediasAssumption == Medias \subseteq (SUBSET Streams) \ {{}}
ASSUME FaultsAssumption ==
  /\ StartFaults \subseteq Faults
  /\ CommitFaults \in BOOLEAN
ASSUME NumbersAssumption ==
  /\ MaxTs \in [SUBSET Streams -> Nat] /\ MaxLateTs \in Nat
  /\ ScratchSpace \in Nat /\ MaxLength \in Nat /\ TsIncrement \in Nat /\ AvSync \in Nat
  /\ UIntMod \in Nat \ {0}
  /\ FrameSizes \subseteq 0..(UIntMod - 1)
  /\ Finalizations \subseteq 0..(UIntMod - 1) /\ Finalizations # {}
  /\ DiskSizes \subseteq 0..(UIntMod * UIntMod - 1)

(* ENUM_STOP_STATUS_t is a word of flags: RECORDER_STOPPED is -1, all bits. *)
RUNNING == {}
AV_STOP == {"audio", "video"}
STOPPED == {"audio", "video", "rest"}

(* ENUM_PAUSE_STATUS_t *)
UNPAUSE    == 0
TO_PAUSE   == 1
PAUSE      == 2
TO_UNPAUSE == 3

VARIABLES
  going, stopped, paused, timestamp, timeoffset, \* the statics of those names
  ready,          \* audReady and vidReady
  thread,         \* streams whose thread handle (audThread, vidThread) is set
  mdesc,          \* streams of this recording
  tsms, size,     \* mbuf.abuf and mbuf.vbuf: time stamp and size of the frame
  anumber, atsms, adelta, \* of CL_HACK
  recordingSize, diskFreeSpace, finalization, lastRecError,
  pc,             \* pc[t]: where worker thread t stands
  cmd, caller,    \* where the command thread stands, and in which operation
  encIn, encOut,  \* external: state of the two encoder plugins
  clock, held,    \* external: last time stamp captured; frame on loan
  committed,      \* history: raw time stamp of the last frame committed
  late            \* history: SrvRecord has failed once its threads were running

(* Groups of variables, for UNCHANGED *)
syncVars   == <<going, ready, stopped>>
pauseVars  == <<paused, timeoffset>>
frameVars  == <<tsms, size, clock, held>>
fileVars   == <<recordingSize, finalization, lastRecError, timestamp, anumber, atsms, adelta,
                committed>>
dataVars   == <<pauseVars, frameVars, fileVars>>
plugVars   == <<encIn, encOut>>
sessionVars == <<mdesc, diskFreeSpace, late>>
cmdVars    == <<cmd, caller, thread>>

vars == <<going, stopped, paused, timestamp, timeoffset, ready, thread, mdesc,
          tsms, size, anumber, atsms, adelta, recordingSize, diskFreeSpace,
          finalization, lastRecError, pc, cmd, caller, encIn, encOut, clock, held, committed,
          late>>

-----------------------------------------------------------------------------
(* External: the encoder plugins.  "bad" records a call made out of turn.   *)

Finished(s) == IF s \in {"open", "inited", "started"} THEN "closed" ELSE "bad"

(* An input that has been finished, or has just been started, has delivered *)
(* no frame yet and has none on loan.                                       *)
NoFrames ==
  /\ clock' = [t \in Streams |-> 0]
  /\ held' = [t \in Streams |-> FALSE]

(* pthread_cond_broadcast(&recordCond): every waiter goes back to its test. *)
Woken(p) == [t \in Streams |-> IF p[t] = "wait" THEN "loop" ELSE p[t]]

-----------------------------------------------------------------------------
(* preCommitChecks, in the arithmetic of unsigned int and of unsigned long  *)
(* long (twice as wide): 0, or the reason why recording must stop now.      *)

UInt(x) == x % UIntMod
ULongLong(x) == x % (UIntMod * UIntMod)
FileSizeLimit == UIntMod - 1

(* Mutation: the frame about to be committed is left out of the disk test.  *)
preCommitChecksForgetsFrame(commitSize, fin) ==
  IF recordingSize >= UInt(FileSizeLimit - UInt(fin + commitSize)) THEN 1
  ELSE IF recordingSize >= ULongLong(diskFreeSpace - fin) THEN 2
  ELSE IF timestamp > MaxLength THEN 3
  ELSE 0

preCommitChecks(commitSize, fin) ==
  IF recordingSize >= UInt(FileSizeLimit - UInt(fin + commitSize)) THEN 1
  ELSE IF recordingSize >= ULongLong(diskFreeSpace - UInt(fin + commitSize)) THEN 2
  ELSE IF timestamp > MaxLength THEN 3
  ELSE 0

-----------------------------------------------------------------------------
(* avsync_save_frame                                                        *)

(* Mutation: one stream's frame is enough.                                  *)
BothReadyEither == "audio" \in mdesc => ready["audio"] \/ ready["video"]

(* "a/v not ready yet": with sound, both streams must hold a frame.         *)
BothReady == "audio" \in mdesc => ready["audio"] /\ ready["video"]

(* The stream whose frame is saved: the earlier one, sound first on a tie.  *)
NextStream ==
  IF "video" \notin mdesc THEN "audio"
  ELSE IF "audio" \notin mdesc THEN "video"
  ELSE IF tsms["audio"] <= tsms["video"] THEN "audio" ELSE "video"

(* CL_HACK moves the time stamps of the sound recorded beside pictures.     *)
HackApplies == mdesc = Streams /\ NextStream = "audio"

HackBase ==
  IF anumber > 1 THEN tsms["audio"] - adelta
  ELSE IF anumber = 1 THEN atsms + TsIncrement
  ELSE tsms["audio"]

FrameTs ==
  IF ~HackApplies THEN tsms[NextStream]
  ELSE IF HackBase > AvSync THEN HackBase - AvSync ELSE HackBase

HackStep ==
  /\ anumber' = IF HackApplies /\ anumber < 2 THEN anumber + 1 ELSE anumber
  /\ atsms'   = IF HackApplies /\ anumber = 0 THEN tsms["audio"] ELSE atsms
  /\ adelta'  = IF HackApplies /\ anumber = 1
                THEN tsms["audio"] - (atsms + TsIncrement) ELSE adelta

(* Mutation: the transitional states are left by an increment.              *)
PausedAfterIncrement == IF paused % 2 = 1 THEN paused + 1 ELSE paused

(* The pause request takes effect at the frame that is about to be saved.   *)
PausedAfter ==
  IF paused = TO_PAUSE THEN PAUSE
  ELSE IF paused = TO_UNPAUSE THEN UNPAUSE ELSE paused

(* Mutation: the end of a pause is not accounted for.                       *)
TimeoffsetAfterForgetsEnd ==
  IF paused = TO_PAUSE THEN timeoffset - FrameTs ELSE timeoffset

TimeoffsetAfter ==
  IF paused = TO_PAUSE THEN timeoffset - FrameTs
  ELSE IF paused = TO_UNPAUSE THEN timeoffset + FrameTs ELSE timeoffset

(* The label bail: the saved frame's buffer goes back to the input plugin.  *)
PutBack(s) ==
  /\ held'  = [held EXCEPT ![s] = FALSE]
  /\ ready' = [ready EXCEPT ![s] = FALSE]
  /\ encIn' = IF encIn = "started" THEN encIn ELSE "bad"
  /\ UNCHANGED <<tsms, size, clock>>

SyncSkip(t) ==
  /\ pc[t] = "sync"
  /\ ~BothReady
  /\ pc' = [pc EXCEPT ![t] = "synced"]
  /\ UNCHANGED <<syncVars, dataVars, plugVars, sessionVars, cmdVars>>

SyncPaused(t) ==
  /\ pc[t] = "sync"
  /\ BothReady /\ PausedAfter # UNPAUSE
  /\ paused' = PausedAfter /\ timeoffset' = TimeoffsetAfter
  /\ HackStep
  /\ PutBack(NextStream)
  /\ pc' = [pc EXCEPT ![t] = "synced"]
  /\ UNCHANGED <<going, stopped, recordingSize, finalization, lastRecError, timestamp,
                 committed, encOut, sessionVars, cmdVars>>

(* A check of preCommitChecks fails: the recording ends here, cleanly.      *)
SyncRefused(t) ==
  /\ pc[t] = "sync"
  /\ BothReady /\ PausedAfter = UNPAUSE
  /\ paused' = PausedAfter /\ timeoffset' = TimeoffsetAfter
  /\ HackStep
  /\ \E fin \in Finalizations :
       /\ finalization' = fin
       /\ preCommitChecks(size[NextStream], fin) # 0
       /\ lastRecError' = preCommitChecks(size[NextStream], fin)
  /\ going' = FALSE
  /\ PutBack(NextStream)
  /\ pc' = [pc EXCEPT ![t] = "failed"]
  /\ UNCHANGED <<stopped, recordingSize, timestamp, committed, encOut, sessionVars,
                 cmdVars>>

(* EncOutputCommit: the frame is written, or the plugin reports an error.   *)
SyncCommit(t) ==
  /\ pc[t] = "sync"
  /\ BothReady /\ PausedAfter = UNPAUSE
  /\ paused' = PausedAfter /\ timeoffset' = TimeoffsetAfter
  /\ HackStep
  /\ \E fin \in Finalizations :
       /\ finalization' = fin
       /\ preCommitChecks(size[NextStream], fin) = 0
  /\ recordingSize' = UInt(recordingSize + size[NextStream])
  /\ encOut' = IF encOut = "open" THEN encOut ELSE "bad"
  /\ PutBack(NextStream)
  /\ \/ /\ timestamp' = IF HackApplies THEN timestamp ELSE FrameTs - TimeoffsetAfter
        /\ committed' = tsms[NextStream]
        /\ pc' = [pc EXCEPT ![t] = "synced"]
        /\ UNCHANGED <<going, lastRecError>>
     \/ /\ CommitFaults
        /\ lastRecError' = 4
        /\ going' = FALSE
        /\ pc' = [pc EXCEPT ![t] = "failed"]
        /\ UNCHANGED <<timestamp, committed>>
  /\ UNCHANGED <<stopped, sessionVars, cmdVars>>

-----------------------------------------------------------------------------
(* audLoop and vidLoop, thread t in Streams                                 *)

(* The previous frame has not been saved yet: wait on recordCond.           *)
LoopWait(t) ==
  /\ pc[t] = "loop" /\ ready[t] /\ going
  /\ pc' = [pc EXCEPT ![t] = "wait"]
  /\ UNCHANGED <<syncVars, dataVars, plugVars, sessionVars, cmdVars>>

(* Mutation: the thread does not wait until its frame is saved.             *)
LoopNextNoWait(t) ==
  /\ pc[t] = "loop"
  /\ pc' = [pc EXCEPT ![t] = IF going THEN "get" ELSE "exit"]
  /\ UNCHANGED <<syncVars, dataVars, plugVars, sessionVars, cmdVars>>

LoopNext(t) ==
  /\ pc[t] = "loop" /\ ~(ready[t] /\ going)
  /\ pc' = [pc EXCEPT ![t] = IF going THEN "get" ELSE "exit"]
  /\ UNCHANGED <<syncVars, dataVars, plugVars, sessionVars, cmdVars>>

(* pthread_cond_wait may return without a broadcast.                        *)
SpuriousWakeup(t) ==
  /\ pc[t] = "wait"
  /\ pc' = [pc EXCEPT ![t] = "loop"]
  /\ UNCHANGED <<syncVars, dataVars, plugVars, sessionVars, cmdVars>>

LastTs == IF late THEN MaxLateTs ELSE MaxTs[mdesc]

(* EncInputGetBuffer(t, &mbuf, 100), without the mutex: a frame, or a time-out. *)
GetBuffer(t) ==
  /\ pc[t] = "get"
  /\ encIn' = IF encIn = "started" /\ ~held[t] THEN encIn ELSE "bad"
  /\ \/ \E ts \in (clock[t] + 1)..(LastTs), sz \in FrameSizes :
          /\ tsms'  = [tsms EXCEPT ![t] = ts]
          /\ size'  = [size EXCEPT ![t] = sz]
          /\ clock' = [clock EXCEPT ![t] = ts]
          /\ held'  = [held EXCEPT ![t] = TRUE]
          /\ pc'    = [pc EXCEPT ![t] = "filled"]
     \/ /\ pc' = [pc EXCEPT ![t] = "loop"]
        /\ UNCHANGED frameVars
  /\ UNCHANGED <<syncVars, pauseVars, fileVars, encOut, sessionVars, cmdVars>>

MarkReady(t) ==
  /\ pc[t] = "filled"
  /\ ready' = [ready EXCEPT ![t] = TRUE]
  /\ pc' = [pc EXCEPT ![t] = "sync"]
  /\ UNCHANGED <<going, stopped, dataVars, plugVars, sessionVars, cmdVars>>

(* Mutation: avsync_save_frame returns without a broadcast.                 *)
SyncReturnSilent(t) ==
  /\ pc[t] \in {"synced", "failed"}
  /\ pc' = [pc EXCEPT ![t] = IF pc[t] = "failed" THEN "exit" ELSE "loop"]
  /\ UNCHANGED <<syncVars, dataVars, plugVars, sessionVars, cmdVars>>

(* The broadcast that ends avsync_save_frame, and its return.               *)
SyncReturn(t) ==
  /\ pc[t] \in {"synced", "failed"}
  /\ pc' = [Woken(pc) EXCEPT ![t] = IF pc[t] = "failed" THEN "exit" ELSE "loop"]
  /\ UNCHANGED <<syncVars, dataVars, plugVars, sessionVars, cmdVars>>

(* Mutation: the flag is assigned, not added.                               *)
LoopExitAssigns(t) ==
  /\ pc[t] = "exit"
  /\ ready' = [ready EXCEPT ![t] = FALSE]
  /\ stopped' = {t}
  /\ pc' = [pc EXCEPT ![t] = "stopServer"]
  /\ UNCHANGED <<going, dataVars, plugVars, sessionVars, cmdVars>>

LoopExit(t) ==
  /\ pc[t] = "exit"
  /\ ready' = [ready EXCEPT ![t] = FALSE]
  /\ stopped' = stopped \cup {t}
  /\ pc' = [pc EXCEPT ![t] = "stopServer"]
  /\ UNCHANGED <<going, dataVars, plugVars, sessionVars, cmdVars>>

(* Mutations: the first thread out closes the plugins; and the recording    *)
(* without sound is not told apart.                                         *)
MayFinishAlways == TRUE
MayFinishBoth == stopped = AV_STOP

(* stop_server: the last thread of the recording closes both plugins.       *)
MayFinish == "audio" \notin mdesc \/ stopped = AV_STOP

StopServer(t) ==
  /\ pc[t] = "stopServer"
  /\ IF stopped # STOPPED /\ MayFinish
     THEN /\ stopped' = STOPPED
          /\ encIn' = Finished(encIn)
          /\ encOut' = Finished(encOut)
          /\ NoFrames
     ELSE UNCHANGED <<stopped, plugVars, clock, held>>
  /\ pc' = [pc EXCEPT ![t] = IF stopped = STOPPED THEN "done" ELSE "stopBcast"]
  /\ UNCHANGED <<going, ready, pauseVars, fileVars, tsms, size, sessionVars, cmdVars>>

StopBroadcast(t) ==
  /\ pc[t] = "stopBcast"
  /\ pc' = [Woken(pc) EXCEPT ![t] = "done"]
  /\ UNCHANGED <<syncVars, dataVars, plugVars, sessionVars, cmdVars>>

-----------------------------------------------------------------------------
(* The command thread: SrvStopRecord, on its own or at the start of SrvRecord. *)

CommandStop(who) ==
  /\ cmd = "idle"
  /\ going' = FALSE
  /\ cmd' = "stopBcast" /\ caller' = who
  /\ UNCHANGED <<ready, stopped, pc, dataVars, plugVars, sessionVars, thread>>

SrvStopRecord == CommandStop("SrvStopRecord")
SrvRecord == CommandStop("SrvRecord")

(* Mutation: SrvStopRecord does not broadcast.                              *)
StopRecordSilent ==
  /\ cmd = "stopBcast"
  /\ cmd' = "joinAudio"
  /\ UNCHANGED <<pc, syncVars, dataVars, plugVars, sessionVars, caller, thread>>

StopRecordBroadcast ==
  /\ cmd = "stopBcast"
  /\ pc' = Woken(pc)
  /\ cmd' = "joinAudio"
  /\ UNCHANGED <<syncVars, dataVars, plugVars, sessionVars, caller, thread>>

(* pthread_join, when the handle of thread t is set; then cmd goes to next. *)
Join(t, next) ==
  /\ t \in thread => pc[t] = "done"
  /\ pc' = [pc EXCEPT ![t] = "none"]
  /\ thread' = thread \ {t}
  /\ cmd' = next
  /\ UNCHANGED <<syncVars, dataVars, plugVars, sessionVars, caller>>

JoinAudio == cmd = "joinAudio" /\ Join("audio", "joinVideo")

JoinVideo ==
  /\ cmd = "joinVideo"
  /\ Join("video", IF caller = "SrvRecord" THEN "recOpen" ELSE "idle")

(* SrvPauseRecord(p): nothing when p is what bit 1 of paused already says.  *)
SrvPauseRecord(p) ==
  /\ cmd = "idle"
  /\ paused' = IF p # paused \div 2
               THEN IF p = 1 THEN TO_PAUSE ELSE TO_UNPAUSE
               ELSE paused
  /\ cmd' = "pauseBcast"
  /\ UNCHANGED <<syncVars, pc, timeoffset, frameVars, fileVars, plugVars, sessionVars,
                 caller, thread>>

(* The broadcast that ends SrvPauseRecord, and the one that ends SrvRecord. *)
CommandBroadcast ==
  /\ cmd \in {"pauseBcast", "recBcast"}
  /\ pc' = Woken(pc)
  /\ cmd' = "idle"
  /\ UNCHANGED <<syncVars, dataVars, plugVars, sessionVars, caller, thread>>

-----------------------------------------------------------------------------
(* The command thread: SrvRecord, after SrvStopRecord has returned          *)

RecReset ==
  /\ cmd = "recOpen"
  /\ recordingSize' = 0 /\ lastRecError' = 0
  /\ atsms' = 0 /\ anumber' = 0 /\ UNCHANGED adelta

RecUnsupported ==
  /\ RecReset
  /\ "format" \in StartFaults
  /\ mdesc' = {}
  /\ cmd' = "idle"
  /\ UNCHANGED <<syncVars, pc, pauseVars, frameVars, finalization, timestamp, committed,
                 plugVars, diskFreeSpace, late, caller, thread>>

(* EncOutputInit fails: nothing to undo but going.                          *)
RecInitFails ==
  /\ RecReset
  /\ "outInit" \in StartFaults
  /\ mdesc' \in Medias
  /\ cmd' = "bail"
  /\ UNCHANGED <<syncVars, pc, pauseVars, frameVars, finalization, timestamp, committed,
                 plugVars, diskFreeSpace, late, caller, thread>>

(* EncOutputStart or statvfs fails, once EncOutputInit has opened the output. *)
RecStartFails ==
  /\ RecReset
  /\ {"outStart", "statvfs"} \cap StartFaults # {}
  /\ mdesc' \in Medias
  /\ encOut' = "open"
  /\ cmd' = "bail1"
  /\ UNCHANGED <<syncVars, pc, pauseVars, frameVars, finalization, timestamp, committed,
                 encIn, diskFreeSpace, late, caller, thread>>

(* The output is open; is there room to start?  If not the file is removed. *)
RecOpen ==
  /\ RecReset
  /\ mdesc' \in Medias
  /\ encOut' = "open"
  /\ \E disk \in DiskSizes, fin \in Finalizations :
       /\ diskFreeSpace' = disk /\ finalization' = fin
       /\ cmd' = IF disk <= UInt(ScratchSpace + fin) THEN "bail1" ELSE "recControls"
  /\ UNCHANGED <<syncVars, pc, pauseVars, frameVars, timestamp, committed, encIn,
                 late, caller, thread>>

RecControls ==
  /\ cmd = "recControls"
  /\ timeoffset' = 0 /\ timestamp' = 0 /\ committed' = -1
  /\ stopped' = RUNNING /\ paused' = UNPAUSE /\ going' = TRUE
  /\ ready' = [t \in Streams |-> TRUE]
  /\ cmd' = "createAudio"
  /\ UNCHANGED <<pc, frameVars, recordingSize, finalization, lastRecError, anumber,
                 atsms, adelta, plugVars, sessionVars, caller, thread>>

(* pthread_create: thread t enters its loop, or SrvRecord gives up.         *)
Create(t, fault, next) ==
  /\ \/ /\ pc' = [pc EXCEPT ![t] = "loop"]
        /\ thread' = thread \cup {t}
        /\ cmd' = next
     \/ /\ fault \in StartFaults
        /\ cmd' = "bail1"
        /\ UNCHANGED <<pc, thread>>
  /\ UNCHANGED <<syncVars, dataVars, plugVars, sessionVars, caller>>

CreateAudio ==
  /\ cmd = "createAudio"
  /\ IF "audio" \in mdesc
     THEN Create("audio", "createAudio", "createVideo")
     ELSE /\ cmd' = "createVideo"
          /\ UNCHANGED <<syncVars, pc, dataVars, plugVars, sessionVars, caller, thread>>

(* vidLoop is created even for a recording of sound only.                   *)
CreateVideo == cmd = "createVideo" /\ Create("video", "createVideo", "recInput")

(* Mutation: the threads are not released.                                  *)
RecInputNoRelease ==
  /\ cmd = "recInput"
  /\ encIn' = IF encIn = "closed" THEN "started" ELSE "bad"
  /\ NoFrames
  /\ cmd' = "recBcast"
  /\ UNCHANGED <<syncVars, pc, pauseVars, tsms, size, fileVars, encOut, sessionVars,
                 caller, thread>>

(* One critical section: EncInputInit, EncInputStart, and off the threads go. *)
RecInput ==
  /\ cmd = "recInput"
  /\ encIn' = IF encIn = "closed" THEN "started" ELSE "bad"
  /\ NoFrames
  /\ ready' = [ready EXCEPT !["audio"] = FALSE,
                          !["video"] = "video" \notin mdesc /\ @]
  /\ cmd' = "recBcast"
  /\ UNCHANGED <<going, stopped, pc, pauseVars, tsms, size, fileVars, encOut,
                 sessionVars, caller, thread>>

RecInputFails ==
  /\ cmd = "recInput"
  /\ \/ "inInit" \in StartFaults /\ cmd' = "bail1" /\ UNCHANGED encIn
     \/ /\ "inStart" \in StartFaults /\ cmd' = "bail2"
        /\ encIn' = IF encIn = "closed" THEN "inited" ELSE "bad"
  /\ late' = TRUE
  /\ UNCHANGED <<syncVars, pc, dataVars, encOut, mdesc, diskFreeSpace, caller, thread>>

Bail2 ==
  /\ cmd = "bail2"
  /\ encIn' = Finished(encIn)
  /\ cmd' = "bail1"
  /\ UNCHANGED <<syncVars, pc, dataVars, encOut, sessionVars, caller, thread>>

Bail1 ==
  /\ cmd = "bail1"
  /\ encOut' = Finished(encOut)
  /\ cmd' = "bail"
  /\ UNCHANGED <<syncVars, pc, dataVars, encIn, sessionVars, caller, thread>>

(* going is cleared without a broadcast.                                    *)
Bail ==
  /\ cmd = "bail"
  /\ going' = FALSE
  /\ cmd' = "idle"
  /\ UNCHANGED <<ready, stopped, pc, dataVars, plugVars, sessionVars, caller, thread>>

-----------------------------------------------------------------------------
(* The static initialisers                                                  *)
Init ==
  /\ going = FALSE /\ stopped = STOPPED /\ paused = UNPAUSE
  /\ timestamp = 0 /\ timeoffset = 0
  /\ ready = [t \in Streams |-> FALSE]
  /\ thread = {} /\ mdesc = {}
  /\ tsms = [t \in Streams |-> 0] /\ size = [t \in Streams |-> 0]
  /\ anumber = 0 /\ atsms = 0 /\ adelta = 0
  /\ recordingSize = 0 /\ diskFreeSpace = 0 /\ finalization = 0 /\ lastRecError = 0
  /\ pc = [t \in Streams |-> "none"]
  /\ cmd = "idle" /\ caller = "SrvStopRecord"
  /\ encIn = "closed" /\ encOut = "closed"
  /\ clock = [t \in Streams |-> 0] /\ held = [t \in Streams |-> FALSE]
  /\ committed = -1 /\ late = FALSE

Sync(t) == SyncSkip(t) \/ SyncPaused(t) \/ SyncRefused(t) \/ SyncCommit(t)

Worker(t) ==
  \/ LoopWait(t) \/ LoopNext(t) \/ GetBuffer(t) \/ MarkReady(t)
  \/ Sync(t) \/ SyncReturn(t) \/ LoopExit(t) \/ StopServer(t) \/ StopBroadcast(t)

(* The steps of a command once it has been called                           *)
Continue ==
  \/ StopRecordBroadcast \/ JoinAudio \/ JoinVideo \/ CommandBroadcast
  \/ RecUnsupported \/ RecInitFails \/ RecStartFails \/ RecOpen \/ RecControls
  \/ CreateAudio \/ CreateVideo \/ RecInput \/ RecInputFails
  \/ Bail2 \/ Bail1 \/ Bail

Call == SrvRecord \/ SrvStopRecord \/ \E p \in 0..1 : SrvPauseRecord(p)

Next ==
  \/ Call \/ Continue
  \/ \E t \in Streams : Worker(t) \/ SpuriousWakeup(t)

(* The scheduler runs every thread that is not blocked; nobody has to call. *)
Fairness ==
  /\ WF_vars(Continue)
  /\ \A t \in Streams : WF_vars(Worker(t))

Spec == Init /\ [][Next]_vars /\ Fairness

-----------------------------------------------------------------------------
(* Properties                                                               *)

WorkerLabels == {"none", "loop", "wait", "get", "filled", "sync", "synced",
                 "failed", "exit", "stopServer", "stopBcast", "done"}
CommandLabels == {"idle", "stopBcast", "joinAudio", "joinVideo", "pauseBcast",
                  "recOpen", "recControls", "createAudio", "createVideo",
                  "recInput", "recBcast", "bail2", "bail1", "bail"}

(* The statics, the frames and the threads keep their types.                *)
TypeOK ==
  /\ going \in BOOLEAN /\ ready \in [Streams -> BOOLEAN]
  /\ stopped \in SUBSET STOPPED /\ paused \in 0..3
  /\ timestamp \in Int /\ timeoffset \in Int /\ committed \in Int
  /\ tsms \in [Streams -> Int] /\ size \in [Streams -> 0..(UIntMod - 1)]
  /\ anumber \in 0..2 /\ atsms \in Int /\ adelta \in Int
  /\ recordingSize \in 0..(UIntMod - 1) /\ diskFreeSpace \in 0..(UIntMod * UIntMod - 1)
  /\ finalization \in 0..(UIntMod - 1) /\ lastRecError \in 0..4
  /\ thread \in SUBSET Streams /\ mdesc \in SUBSET Streams
  /\ pc \in [Streams -> WorkerLabels]
  /\ cmd \in CommandLabels /\ caller \in {"SrvRecord", "SrvStopRecord"}
  /\ encIn \in {"closed", "inited", "started", "bad"}
  /\ encOut \in {"closed", "open", "bad"}
  /\ clock \in [Streams -> Nat] /\ held \in [Streams -> BOOLEAN]

(* The encoder plugins are driven in order: a frame is fetched only from a  *)
(* started input that has its last frame back, committed only to an open    *)
(* output, and each plugin is finished exactly once, by the last thread of  *)
(* the recording (stop_server), however the three threads interleave: until *)
(* SrvRecord finishes them itself while its threads are there (late).       *)
PluginProtocol == ~late => encIn # "bad" /\ encOut # "bad"

(* mbuf is filled outside the mutex: while a thread fills its half, or has  *)
(* not announced it yet, avsync_save_frame run by the other thread must not *)
(* see that half as ready.                                                  *)
MbufNotShared == \A t \in Streams : pc[t] \in {"get", "filled"} => ~ready[t]

(* While recording, when every stream holds a frame, a thread is on its way *)
(* into avsync_save_frame: the recording cannot stall with both threads     *)
(* waiting for the other to save.                                           *)
NoStall ==
  encIn = "started" /\ going /\ (\A t \in mdesc : ready[t])
    => \E t \in mdesc : pc[t] = "sync"

BroadcastPending ==
  \/ cmd \in {"stopBcast", "pauseBcast", "recBcast"}
  \/ \E t \in Streams : pc[t] \in {"synced", "failed", "stopBcast"}

(* All broadcasts come after the unlock.  Still, during a recording a thread *)
(* asleep on recordCond whose condition has changed is about to be woken.   *)
NoLostWakeup ==
  encIn = "started" =>
    \A t \in Streams : pc[t] = "wait" /\ ~(ready[t] /\ going) => BroadcastPending

(* When SrvStopRecord has joined the threads, the recording is closed: no   *)
(* thread runs, both plugins are finished and no handle is left, unless late. *)
ClosedAfterStop ==
  ~late /\ (cmd = "recOpen" \/ (cmd = "idle" /\ thread = {})) =>
    /\ thread = {} /\ ~going /\ \A t \in Streams : pc[t] = "none"
    /\ encIn = "closed" /\ encOut = "closed"

(* Sound and pictures reach the output merged in the order of their capture. *)
FramesInOrder == [][late' \/ committed' >= committed \/ cmd = "recControls"]_vars

(* What the frame just committed and the end of the file take.              *)
Needed == finalization' + (recordingSize' - recordingSize)

(* "would we have enough disk space to finalize this file, if we were to    *)
(* finalize after committing ?": once a frame is committed the file can be  *)
(* closed within the space that was free.                                   *)
DiskSuffices ==
  [][recordingSize' > recordingSize => recordingSize' + finalization' < diskFreeSpace]_vars

(* The first and second test of preCommitChecks, in unsigned arithmetic: a  *)
(* file can be closed within 4 Gb after each commit, and within the space   *)
(* that was free unless there was less than this frame and the end take.    *)
CommitFits ==
  [][recordingSize' > recordingSize /\ Needed < UIntMod =>
       /\ recordingSize' + finalization' < FileSizeLimit
       /\ Needed <= diskFreeSpace => recordingSize' + finalization' < diskFreeSpace]_vars

(* The record time of a recording with one stream never goes back and never *)
(* passes the last frame written, whatever is paused and resumed in between.*)
RecordTimeSound ==
  [][late' \/
       /\ mdesc # Streams /\ cmd # "recControls" => timestamp' >= timestamp
       /\ mdesc' # Streams /\ encIn' = "started"
            => timestamp' <= committed' \/ timestamp' = 0]_vars

(* SrvStopRecord returns: both threads notice, whatever they were doing.    *)
StopReturns == cmd = "stopBcast" ~> cmd \in {"idle", "recOpen"}

(* A commit that is refused or fails ends the recording: the output file is *)
(* finalised without any command, even if the other thread was asleep.      *)
(* After a late failure of SrvRecord the file was finalised by that.        *)
ErrorFinalises == lastRecError # 0 ~> encOut = "closed" \/ late

=============================================================================
