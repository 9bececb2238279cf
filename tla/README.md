# Formal models of the Neuros OSD media server (osd-nms)

osd-nms is the daemon of a set-top box that records, plays and monitors video. A client library sends it
commands over a local socket; one **command thread** serves them one after the other and starts further threads,
which it steers through static variables, mutexes and condition variables. What can go wrong in it is almost
entirely a matter of how these threads interleave, and that is what the models here are about.

Line numbers refer to `src/src/server/` unless another directory is given.

## The system

| Component | Source | State | Operations | Threads |
|---|---|---|---|---|
| Recorder | `server-record-nms.c` | `going`, `stopped`, `paused`, `audReady`/`vidReady`, the two halves of `mbuf`, `timestamp`, `timeoffset`, `recordingSize`, … under `recordMutex` | `SrvRecord`, `SrvPauseRecord`, `SrvStopRecord` | command thread, `audLoop`, `vidLoop` |
| Player, one file | `server-play-nms.c` | `playing`, `playState`, levels, flags under `playMutex` | `SrvPlayFile`, `SrvStop`, `SrvPlayHistory`, `SrvPauseUnpause`, `SrvSeek`, `SrvFfRw`, `SrvSfRw`, `SrvFrameByFrame`, `SrvRepeatAB`, `SrvSetEditmode` | command thread, `avLoop` |
| Directory playback | `server-play-nms.c` | `trackChange`, `playtype`, `repeat`, `playmode`, `fileIdx`, `totalFiles`, `dirInited`, `requestToStopPlaying` | `SrvPlayDir`, `SrvTrackChange`, `SrvSetRepeatmode`, `SrvSetPlaymode` | the same, `nextFileLoop`, `dirInit` |
| Play history | `server-play-history.c` | one record: type, path, index, book mark | save (in `SrvStop`), load (in `SrvPlayHistory`) | command thread |
| Video monitor | `server-monitor-nms.c` | `monitor`, modes, `mReady`, the list of suppression requests under `garbageMutex` | `SrvStartMonitor`, `SrvStartMonitorInternal`, `SrvStopMonitor`, start and end of the collector | command thread, `mLoop`, `garbageLoop` |
| Slide show | `server-slideshow-nms.c` | the image, whether it is shown and in which modes | start, stop, set image | command thread |
| Command dispatcher | `server-main.c` | `just_recorded` | `SrvRxCmd`: one case per command | command thread |
| Sessions, socket | `generic-nms.c` | open connections | accept, read a command, answer, end | command thread |
| Daemon | `../srvmain.c` | – | fork, `NmsSrvInit`, `NmsSrvStart` | – |
| Plugin registry | `../plugin/nms-plugin.c` | a list of plugins per kind | `PluginLoad`, once, before any other thread exists | daemon |
| Plugin wrappers | `../plugin/input-plugin.c`, `output-plugin.c` | `actv` of each list: the plugin that the next call goes to; the input mode | select, init, start, get, put, commit, pause, finish | whichever calls, without a mutex |

Interactions. The dispatcher calls the other services as functions. A service talks to its threads through its
statics, `pthread_cond_broadcast` and `pthread_join`; the command thread never gets an answer but by joining. Recorder
and monitor share the encoder input plugin; a client that records or plays first suppresses the monitor by its
process id. `SrvSetOutputMode` restarts the monitor. `nextFileLoop` and the command thread share the handle and the
functions that start and stop `avLoop`. Playback, slide show, monitor and recorder all choose an output plugin, through one
`actv` pointer; five threads call the wrappers.

What is hard:

* *The handshake of the two recording threads.* Each sleeps until its frame is saved; a frame is saved only when
  both streams hold one; broadcasts are made after the unlock; either thread may be the one that stops both.
* *Partial failure of a start.* `SrvRecord`, `start_srv` and `playFile` make up to eight steps, each of which may
  fail with the earlier ones done.
* *Three joins in `stopServer`.* Each thread joined may at that moment be creating or joining another.
* *Flags with two writers.* `playing`, `trackChange` and `playState` are written by commands and by the threads
  the commands are meant for.
* *The monitor and the clients.* Clients die without taking back their request; process ids are reused; starts fail.
* *Plugins chosen by one and called by another.* `actv` is one pointer per kind of plugin. Selecting a plugin takes no
  lock, a selection that fails may still change it, and what was opened through it is finished through it later.
* *Numbers.* Unsigned subtractions in `preCommitChecks`, pauses summed in `timeoffset`, a level used as a divisor.

`PROJECT.json` lists the hazards line by line, each with the properties that watch it.

## What makes each component correct

* **Recorder**: the plugins are opened and finished once (`PluginProtocol`); a buffer is never filled while the
  other thread may save it (`MbufNotShared`); neither stalls nor misses a wakeup (`NoStall`, `NoLostWakeup`); a stop
  leaves nothing behind and returns (`ClosedAfterStop`, `StopReturns`); frames are saved in capture order
  (`FramesInOrder`); a file can be closed within 4 Gb and within the disk (`CommitFits`), which does not hold of a frame
  larger than the rest of the disk (`DiskSuffices`); the record time of one stream is monotone
  over pauses and never ahead of what was written (`RecordTimeSound`); an error ends in a closed file (`ErrorFinalises`).
* **Monitor**: the encoder input is opened and closed in turns (`InputProtocol`) until two threads are in `start_srv` at
  once, which a client can bring about (`InputAlone` does not hold); `monitor` tells the truth after
  every start or stop, failed ones too (`MonitorAgrees`); a request keeps the monitor down (`SuppressionHolds`);
  without requests it comes back (`MonitorComesBack`); the daemon can end (`ServerStops`).
* **Player**: plugins are used in turn and never finished while paused (`PluginProtocol`); after a stop nothing is
  left (`ClosedAfterStop`); before the end of a file `avLoop` obeys a stop, unless it is stuck in a scan with the mutex
  held (`StopBeforeEnd`); an end is drained unless someone pauses again (`DrainEnds`).
* **Directory playback**: one playback at a time (`PluginProtocol`); a stop leaves no thread and no pending track
  change (`StoppedIsStopped`) and gets through all its joins, unless `avLoop` overwrites it (`StopReturns`).
* **The server as a whole**: who uses the output has initialised the plugin that is now called, and leaves it to the next
  (`OutputOwned`), which every step keeps that does not choose another plugin meanwhile (`OutputKept`); an output is only locked
  while it is used (`LockedByOthers`, which does not hold with two outputs); an input is open for the one thread that uses it, or not at all (`InputOwned`); sound is decoded by the
  decoder of its codec or by none (`DecoderFits`); the encoder input of a running monitor stays open (`EncInputOwned`, which
  does not hold).
* **Any playback**, whichever module keeps it: it is opened after the last one was stopped, closed once and as a whole, and
  gone when a stop returns (`ImplementsPlayback`).

## Modules

| Module | Models | Checked by | Proofs |
|---|---|---|---|
| `Recorder` | `server-record-nms.c` | `MCRecorder` | `RecorderProofs`, `RecorderClockProofs` |
| `Monitor` | `server-monitor-nms.c`, its commands in `server-main.c`, the daemon's start and end in `generic-nms.c` | `MCMonitor` | `MonitorProofs` |
| `Playback` | abstract: what a playback promises to those who start and stop it | as a property of `Player`, `PlayDir` and `Server` | that each of them implements it, in their proofs |
| `Player` | `avLoop`, `playFile`, `stopPlaying` and the commands on one file | `MCPlayer` | `PlayerProofs` |
| `PlayDir` | `nextFileLoop`, `getNewIndex`, `dirInit`, `stopServer` and the commands on directories | `MCPlayDir` | `PlayDirProofs` |
| `Plugins` | the registry and the choice, opening and closing of plugins in `plugin/*.c` | by `Server` | by `ServerProofs` |
| `Server` | the composition: `server-main.c`, slide show, history, and every other part reduced to its calls of `Plugins` | `MCServer` | `ServerProofs` |

`Server` extends `Plugins`. `Recorder`, `Monitor`, `Player` and `PlayDir` each keep one part of the server in detail and its
plugins as a small automaton of their own; `Server` keeps all parts together, in less detail, and the plugins in more.
`Player`, `PlayDir` and `Server` overlap in the playback, and `Playback` is what they are shown to agree on.

Conventions. Statics keep their names. A critical section of the mutex is one action; code between sections is a
separate action whenever another thread can tell. Where a thread stands is a label: `pc[t]` for the recording
threads, `av`, `nx`, `di`, `gc`, `mpc` for the others (`rec`, `pf` and `ms` in `Server`), `cmd` for the command thread, with `caller` for the command that
shares code. The plugins are external and kept as a small automaton (`closed`, `inited`, `started`, `open`), with
`bad` for a call out of turn; in `Plugins` and `Server`, as the sets of those that are open and who opened them. A variable marked *history* exists for a property only. Definitions that begin with the
comment "Mutation" are plausible bugs; none is part of a specification, they show that the properties notice.

### Recorder

`LoopWait`, `LoopNext`, `GetBuffer`, `MarkReady` and `LoopExit` are the body of `audLoop` and `vidLoop`, which differ in
the stream only; `SyncSkip`, `SyncPaused`, `SyncRefused` and `SyncCommit` are the four ways through
`avsync_save_frame` (one critical section: 206-352), `SyncReturn` its broadcast after the unlock. `MayFinish` and
`StopServer` are the vote by which the last thread out finishes the plugins; `Rec…`, `Create…` and `Bail…` are the steps of
`SrvRecord` with every `goto`. `wait` is the set of sleepers: a broadcast (`Woken`) moves all out of it, and
`SpuriousWakeup` one. `preCommitChecks` is the unsigned arithmetic of the code with the width `UIntMod`. `stopped` is a
set of flags, as in the code (`RECORDER_STOPPED` is -1, all of them). Frames are abstracted to a time stamp and a size.
The two clocks and `CL_HACK`, which rewrites sound time stamps, are kept; the raw time stamp of the frame saved last
is the history variable `committed`. When `EncInputInit` or `EncInputStart` fails, the two threads exist already: `SrvRecord` finishes
the plugins and returns, the threads sleep until the next command, and the last one out finishes the plugins once more. The
history variable `late` says that this has happened.

### Monitor

`StartTest` to `RecordModes` are `start_srv`, `StopThread`, `JoinThread` and `FinishInput` are `stop_srv`; both are run by
"cmd" and by "gc", so their place is `srv[p]`. `garbageMutex` is explicit (`mutex`), as one of the paths does without it.
`GcCheck`, `GcWait`, `GcGap` and `GcTimeout` are the four parts of a round of `garbageLoop`: the check with the mutex held,
the untimed wait, the gap between two locks, the timed wait (whose time-out may come at any moment). `Exit` and
`Spawn` are client processes that die and pids that are used again. The list of requests is a set, its length is
`suppressionCount`; that there is no memory for a request is the fault "request" of `SrvStopMonitor`. The history variable `raced`
says that both threads have been between the first and the last step of `start_srv` or `stop_srv` at once.

### Player

`av` is either the state `avLoop` is about to obey, which it read in an earlier critical section, or a label. The
locals `loc_preState` and `loc_quit` are `pre` and `quit`. Time stamps are left out: a test on one goes either way,
which allows all that the code can do with any media. `AvScan…` are the cases of FF and RW, with the inner loop that
keeps the mutex (`spin`) when the level and the state disagree; while it spins no command can proceed (`Unlocked`), a stop
neither. Two commands are enough for it: `SrvFfRw` forward, and `SrvFfRw` backward after `avLoop` has read FF. It is the exception
that `StopBeforeEnd` states.
`AvRestore`, `AvDrain` and `AvFinish` are the end of a file, `AvDrained` is the output playing out.

### Directory playback

`avLoop` is kept to how a playback ends and what it then asks of `nextFileLoop`; everything in between is `Player`'s. It meets the
end of the file (`AvEof`), restores `playing` (`AvRestore`), drains (`AvDrained`), goes back to the file when the user seeks (`AvBack`),
and leaves when it is stopped (`AvQuit`, `AvBail`) or when `nextFileLoop`, at its end, has set `playState` to stopped
(`halted`, all that is kept of `playState`). A list may be empty although a file plays, as the list goes by names and may not be
readable; `getNewIndex` then divides by zero when it shuffles, which ends the server (`NextDivides`; `Up` says that it runs).
`JoinNext`, `JoinInit` and `JoinAv` are the joins of `stopServer`; `NewIndexes` is the set of indices `getNewIndex` may
return, shuffling included. Waits on conditions are guards: each write under the mutex that makes one true is followed by a broadcast, and
the loops test again, so that nothing is lost. `pthread_create` is assumed to succeed; where it fails for `dirInit` the
server hangs, without need of a model (see the hazards).

### Playback, and how it is implemented

`Playback` has three variables: `phase` (closed, open, over), `stopping` and `paused`. Its five actions are a start, a pause
or the end of it, the end of the playback, the begin of a stop and its return. The mappings:

| | `phase` | `stopping` | `paused` |
|---|---|---|---|
| `Player` | `avThread` and the states of both plugins | the command thread joins `avLoop` | the output is paused |
| `PlayDir` | whether `avLoop` exists and the plugins are open | `requestToStopPlaying` | not kept |
| `Server` | where `avLoop` stands and which inputs are open | a join of `avLoop`, by either thread | not kept |

`phase` is computed from the plugins as well as from the thread, and is "broken" when they disagree; no step of `Playback`
leads there. So the refinement also says, of `Player` and `PlayDir`, that no step opens one plugin without the other, or closes
one twice; of `Server` it says so for the input, as another part may choose another output while a file plays.

### Plugins and Server

The lists are `loaded`, the pointers `inActv`, `decActv`, `outActv`, `encInActv`, `encOutActv`. A plugin is known by what it is
chosen for: its type, or its codec. The encoder inputs and the encoder outputs are lists of their own, so that an output may take
a format for which there is no input (`EncOutputIsOurFormat`, `EncInputSelect`). `PluginLoad` allows every installation of the constant `Installations`, those without a
mandatory plugin too, as the answer of `PluginLoad` is not looked at. External are what a plugin has open (`inOpen`, `decOpen`,
`encOutOpen`) and who opened it (`outUser`, `encInUser`), and two refusals: an output that is locked, and an encoder input in
use. The selections keep the order of the code: `InputIsOurFile` sets `inActv` before it asks for the output, `InputInitFails`
either forgets the input or keeps it with its decoder, `InputFinish` finishes whatever the pointers say then.

`Server` has one variable for each thread: `cmd` (with `caller`), `av`, `nx`, `rec` (both recording threads) and `gc` in
`ms`. `playFile` is run by the command thread and by `nextFileLoop`, `start_srv` by the command thread and by the collector;
where they stand is `pf[p]` and `ms[p]`. `CMD_SET_OUTPUT_MODE` takes the command thread there without the mutex
(`SetOutputMode`, with `cmd = "mode"`). `Next` is grouped as the code is: `PlayFile`, `PlayThreads`, `PlayCommands`,
`SlideShow`, `Recording`, `Monitoring`, `SetInputMode`, `Crash`. `JoinNext` and `JoinAv` are the joins of `stopServer`,
`RecJoin` that of the recorder, `orphan` stands for the threads that a failed `SrvRecord` leaves behind. What decides on a
wrapper call is kept (`history`, `just_recorded`, `image`, the modes, `playtype`); what only the detailed modules need is a
nondeterministic choice (the end of a file, the order of play, whether a file can be played).

A wrapper called without a plugin kills the daemon. That is `Crash`, enabled whenever some command or thread could make such
a call (`NullCalled`). A behaviour may end after any step, which covers the end of the daemon by a signal or a command: it
joins the collector and exits, and persists nothing that it reads again.

The slide show and `start_srv` compare the output mode exactly as they compare the input mode; both are one variable, `modes`,
which either command sets.

## Runs

| Run | Configuration | Shows |
|---|---|---|
| `rec_session` | all kinds of recording, all faults of a start, commits that are refused or fail, `MaxTs` 3 and, in one stream, 4, frames of 2, disk 2 or 5, `UIntMod` 8 | all properties of the recorder |
| `rec_wrap` | *violated* `DiskSuffices` | a frame larger than the rest of the disk is committed (:163) |
| `mon_session` | two pids, changes of both modes, all faults, spurious wakeups | all properties of the monitor |
| `mon_race` | *violated* `InputAlone` | a change of the output mode races the collector (:270) |
| `play_file` | all faults of `playFile`, edit mode on and off | all properties of the player; it implements `Playback` |
| `play_stop` | *violated* `StopReturns` | a stop at the end of a file can hang the command thread (:702) |
| `play_slow` | *violated* `SlowLevelRecorded` | leaving slow motion can divide by zero (:363) |
| `play_dir` | 0 or 2 files, all modes, files and outputs that may never end | all properties of directory playback; it implements `Playback` |
| `play_dir_next` | *violated* `DirectoryGoesOn` | a short file can be the last to be played (:1147) |
| `srv_session` | four installations, one with two outputs; every command | the plugins shared by the parts of the server; it implements `Playback` |
| `srv_encin` | *violated* `EncInputOwned` | what a failed `SrvRecord` leaves behind closes the input of the running monitor (:757) |
| `srv_outputs` | *violated* `LockedByOthers` | with two outputs a choice redirects the end of a playback, whose output stays locked (`../plugin/output-plugin.c:73`) |

The violated runs are findings: `PROJECT.json` quotes the line of the source that states what does not hold.

### Bounds, and why they are enough

* `MaxTs` is the last raw time stamp the hardware delivers in a recording of each kind; frames have different stamps.
  Up to three frames in each of two streams let the streams overtake each other both ways and let every branch of
  `CL_HACK` be taken; four in a single stream are two pauses, each begun and ended by a frame, which is what it
  takes for `timeoffset` to sum. Recordings are ended and begun again without bound.
* `UIntMod` 8, so that `FILE_SIZE_LIMIT` is 7; frames of 2, an end of the file of 1. With a disk of 5 the second frame is refused for
  want of space. With a disk of 2 the difference of the second test wraps around, frames go on being committed, and the
  third is refused at the 4 Gb limit: both tests decide, and the wrap is reached (`rec_wrap` shows it, `CommitFits` is stated around it).
  `MaxLength` 1 makes the third code of `preCommitChecks` occur.
* `MaxLateTs` 1: after a late failure a recording gets one frame in each stream, enough for both threads, those left behind or
  new ones, to be in every place of their loops; what the clocks do is not asked then.
* Two pids are the fewest with which a request remains when another is withdrawn. Pids die and come back any number
  of times. Three add no case: the code only asks whether the list is empty and whether a pid is in it.
* The player has no bound of its own: levels are -1, 0, 1 because the code only uses their sign and whether they are 0.
* A directory of 2 is the smallest with a next and a previous file, a wrap at both ends and an index beside the current
  one; 0 is the one that cannot be played. `fileIdx` keeps its value from one directory to the next, so that an index out
  of range occurs.
* `srv_session` has four installations: one that is complete, one without encoder inputs and decoders whose second input asks for
  an output that is not there, one without output, and one with an output for each of two inputs. Two types are the fewest with
  which an input fails to select an output, or selects another than the slide show and the monitor do; one codec, with "none"
  and "a picture", gives a file a decoder, no decoder, or the one of the file before. The modes change from NTSC to PAL and
  not back: they are only compared, so the way back adds no case, only states.

The proofs need none of these bounds.

`CHECK_DEADLOCK FALSE` is set where the system may stop: in `play_dir` the server may die of a division by zero; in the
runs of `Player` `avLoop` may spin for ever with the mutex held, a step that changes nothing; in the runs of `Server` the
daemon may crash.

### Fairness

* Threads that are not blocked run: weak fairness of each thread's step. A thread asleep in a condition wait, or in a
  join, is disabled. No fairness is assumed of commands, of client processes or of faults.
* In `Player` the output plays to its end when it is not paused (`WF(~paused /\ AvDrained)`). `PlayDir` does not keep pauses, and so
  assumes neither that an output drains nor that a file ends: only that `avLoop` obeys when `playing` is cleared, and restores the
  flag at the end of a file (`AvObeys`). The spin with the mutex held is a matter of `Player`, and left out there.
* Frames keep arriving from a started input (`Recorder`: the hardware captures).
* The collector's two locks are strongly fair: the command thread sleeps in `select` between commands without the mutex,
  for longer than a wakeup takes.
* `Server` and `Playback` state no fairness: their properties say what may never happen.

## Proofs

Every invariant that a passing run checks, the action properties `FramesInOrder`, `CommitFits`, `RecordTimeSound`,
`SuppressionHolds` and `OutputKept`, and the three refinements of `Playback` are proved for **every** value of the constants.
One theorem has a hypothesis; the property fails without it, and TLC shows how.

| Module | Theorem | Property | Hypothesis |
|---|---|---|---|
| `RecorderProofs` | `TypeCorrect` | `TypeOK` | – |
| | `MbufNotSharedHolds`, `NoStallHolds`, `NoLostWakeupHolds` | the same names | – |
| | `PluginProtocolHolds`, `ClosedAfterStopHolds` | the same names | – |
| `RecorderClockProofs` | `FramesInOrderHolds`, `RecordTimeSoundHolds`, `CommitFitsHolds` | the same names | – |
| `MonitorProofs` | `TypeCorrect`, `SuppressionAlwaysHolds` | `TypeOK`, `SuppressionHolds` | – |
| | `InputProtocolHolds`, `MonitorAgreesHolds` | the same names | – |
| | `InputAloneHolds` | `InputAlone` (violated in `mon_race`) | `OutModes = {}` |
| `PlayerProofs` | `TypeCorrect`, `PluginProtocolHolds`, `ClosedAfterStopHolds` | the same names | – |
| | `PlayerImplementsPlayback` | `ImplementsPlayback` | – |
| `PlayDirProofs` | `TypeCorrect`, `PluginProtocolHolds`, `StoppedIsStoppedHolds` | the same names | – |
| | `PlayDirImplementsPlayback` | `ImplementsPlayback` | – |
| `ServerProofs` | `TypeCorrect`, `InputOwnedHolds`, `DecoderFitsHolds` | the same names | – |
| | `OutputKeptHolds`, `ServerImplementsPlayback` | `OutputKept`, `ImplementsPlayback` | – |

Where a property does not hold of the code as it is, its statement says where it stops: `PluginProtocol`, `ClosedAfterStop`,
`FramesInOrder` and `RecordTimeSound` are stated until a start has failed late (`late`), `InputProtocol` and `MonitorAgrees` until two
threads have been in `start_srv` at once (`raced`), `OutputKept` of steps that do not choose another output while one is used.
`srv_encin`, `mon_race` and `srv_outputs` show what happens then.

None of these properties is inductive alone. Each module states an inductive invariant `IInv` as a conjunction of named parts,
proves with one step per action (or per group of actions of one thread) that the parts are kept, and derives the properties
from it. Of the constants only the named assumptions of the modules are used.

### The threads and the plugins of the recorder

When `EncInputInit` or `EncInputStart` fails, `SrvRecord` finishes the plugins with the threads running, which finish them again when
they leave (`srv_encin`). Until that happens (`[](~late => IInv)`) `IInv` adds to the type invariant

* `ThreadInv`: a thread has a handle exactly while it exists, and there is a sound thread only in recordings with sound;
* `PlugInv`: in which places of the command thread the plugins are open;
* `CmdInv`: what the command thread knows where it stands – that nobody records while it joins, that no thread exists
  while it opens, that before the input is started both halves of `mbuf` count as ready, so that the threads sleep;
* `RunInv`: while the input is started, `stopped` holds exactly the threads past `LoopExit`, and at least one has yet to
  vote, so the last one closes;
* `ClosedInv`: when it is closed, no thread is left that would close it again;
* `PcInv`: what a worker knows where it stands.

`LateInv` is what remains of `IInv` after a late failure. It says nothing of a closed plugin, but as much of the threads:
`LateCmdInv` and `LatePcInv` take the place of `PlugInv`, `CmdInv`, `ClosedInv` and `PcInv`. It is inductive by itself, so mbuf,
stalls and wake-ups are safe whatever step of `SrvRecord` fails.

### The clocks and the disk

`ClockInv` has three parts, on top of `IInv` and like it until a start fails late:

* `CtrlInv`: what `SrvRecord` sets up is still so when it releases the threads, as no command can come in between;
* `OrderInv`: the frame in each half of mbuf is the last its stream captured, and is not older than the last one committed.
  It is stated for a stream that holds a frame, and for all streams from the first commit on, as before the first frame
  mbuf has those of the last recording;
* `TimeInv`, for one stream: out of a pause `timestamp + timeoffset` is not ahead of the capture clock and `timeoffset` is not
  negative; in a pause their sum is not positive, and `timeoffset` and the clock together are not negative. A request that
  is not yet obeyed (`TO_PAUSE`, `TO_UNPAUSE`) belongs to the state before it.

The attempt to prove `RecordTimeSound` as it was first stated, with any `committed`, did not go through, for a good reason: with
recordings of different streams in a row the step in which `SrvRecord` describes the next recording still has the time of the
last one, in which a pause may have mixed the stamps that `CL_HACK` makes up for the sound with those of the pictures. The property is now stated of a recording under way
(`encIn = "started"`), which is what it is about.

`CommitFits` needs no more than the types: it is about the unsigned arithmetic of the two tests of `preCommitChecks` (:158,
:163), for all sizes whose sum fits an `unsigned int`. The first difference cannot wrap then. The second does when less space
was free than the frame and the end of the file take, so `CommitFits` promises the disk only when there was as much.
Nothing in the repository sees to that: the plugins choose the numbers, and the start only asks for `disk_scratch_space`
(:676). `DiskSuffices`, which is what the comment at :162 says, is violated in `rec_wrap`.

### The monitor

`start_srv` is entered without `garbageMutex` from `SrvSetOutputMode`, while the collector may enter it, too. `mon_race` shows what
comes of it, with one process and no failure. `raced` remembers that it has happened.

* `ServiceInv` says who is inside `start_srv` or `stop_srv`; `RequestInv` that no request stands when somebody is about to
  start the monitor. With `TypeOK`, which includes who owns the mutex, they are inductive for every daemon, and give
  `SuppressionAlwaysHolds`: requests are tested with the mutex held, and the one path without it tests them in the command
  thread, which is the one that adds them.
* `TurnInv` says that one thread at a time is inside until they have raced, and `InputInv` how far `monitor`, the encoder input and
  `mLoop` are at each place of it then.
* `InputAloneHolds` takes the output modes away, and draws from the mutex that nobody ever races: this one command is the only
  way to it.

### The player

`PlugInv` says at which labels of `avLoop` the plugins are open, `PlayInv` that nothing plays when there is no `avLoop` or it is
done, and `PauseInv` who remembers that the output is paused: `loc_preState`, or that `avLoop` has met the end of the file, after
which the output is resumed before it is finished. That the output is never finished while it is paused is not inductive
without it, as a pause may be followed by a seek, a scan, an end of the file and a stop in any order.

### Directory playback

`TurnInv` is the heart: whoever is about to play a file – the command thread after its joins, or `nextFileLoop` – is alone to do
so, since `JoinNext` comes before the command thread opens anything, and `SrvPlayDir`, which tries the first file itself,
leaves `nextFileLoop` waiting meanwhile. `CallerInv` says which command has got where, `AvInv` that plugins and `playing` are as far
as `avLoop` is, `InitInv` that `dirInit` is created with `nextFileLoop` and joined after it, `FlagInv` that `going` is off until the joins are
over and that there is no track to change to before a file plays.

### The server

Ownership is not inductive alone, as it does not say who may open an input next. `IInv` adds

* `TurnInv`: at most one thread is in `playFile`, and then there is no playback – what the three joins of `stopServer` and
  the one of `nextFileLoop` achieve together without a mutex around `playFile`;
* `InInv`: which input is open at each place of `playFile`, the failed ones included, and while the playback runs;
* `DecInv`: the decoder fits from `PlayInput` on, as nobody else can choose one before the playback has ended.

`ChosenInv` adds that an output is chosen before `playFile` initialises it, and that a picture is hidden before the next is
shown. `OutputKept` then goes by the steps that touch an output: whoever initialises one finds it free, and whoever finishes
one finds its own, as long as the pointer stays. With a single output it always does. With two, the slide
show, the recorder or the monitor may choose the other while a file is played, and `srv_outputs` shows the output that stays
locked. `ServerImplementsPlayback` holds for all installations, as `phase` is seen from `avLoop` and the inputs. The proofs split
`Next` once, in `StepCases`; `OtherSteps` collects the steps that the playback does not notice.

### The refinements of Playback

In `PlayerProofs`, `PlayDirProofs` and `ServerProofs` alike, `PhaseInv` says what `phase` is at each place of `avLoop`, so that the
mapping is never "broken", and `PlaybackStep` what each step is in `Playback`; neither needs more than the invariant.

### Only model-checked

The liveness properties (`StopReturns`, `ErrorFinalises`, `MonitorComesBack`, `ServerStops`, `StopBeforeEnd`, `DrainEnds`), which
TLAPS cannot prove; liveness under fairness is out of its reach. Two of them are stated with the exceptions that the code makes: `StopBeforeEnd`
of an `avLoop` that does not spin, `StopReturns` of directory playback of a server that runs and an `avLoop` that does not overwrite the
stop at the end of a file.

## Known behaviour without a run

Lines that are certain to go wrong, where a model would only repeat them; `PROJECT.json` has each among the hazards.

* FF or RW with a level of the other sign makes `avLoop` spin with the mutex held, and the next stop hangs (`server-play-nms.c:398`,
  `AvScanStep`).
* Shuffling a directory of which nothing is listed divides by zero (`server-play-nms.c:1049`, `NextDivides`).
* A pause that comes before the last request was obeyed is dropped (`server-record-nms.c:779`).
* A restart of the monitor that failed is not tried again before somebody asks for it (`server-monitor-nms.c:396`); the modes
  recorded with a start are those after it (:190).
* A command that calls a wrapper without a plugin ends the daemon (`server-play-nms.c:1566` and others: `NullCalled`).
  `InputOwned` says where it cannot: while a file plays.
* A picture, and an input that fails to be initialised, have the decoder of an earlier file finished once more
  (`../plugin/input-plugin.c:101`); the plugin has to bear it.
* `just_recorded` is set although the recording failed (`server-main.c:106`).
* An exit while a recording runs leaves the file without its end (`generic-nms.c:158`), and a command that arrives incomplete a
  descriptor open (:133).
* If `avLoop` cannot be created, `playing` and the output stay as they are (`server-play-nms.c:934`); if `dirInit` cannot,
  the next stop hangs (:1315).

## Not modelled

* Sockets and sessions: input and output of one thread, one command after the other. Their effect, that commands are
  served in turn and the daemon may end between two, is in `Server` and `Monitor`.
* The daemon's fork, build files, the plugins themselves (not in the repository), and `PluginUnload`, which nobody calls
  while the server works.
* Capture, the choice of an audio encoder, volume and gain: calls that change nothing outside of a plugin. That they crash
  without one is in `NullCalled`.
* The branch of `CMD_SET_OUTPUT_MODE` for a server that plays, which sends the new mode to the output again.
* Get functions that only report, thread priorities, logging, the properties of the picture and the sound.
* `SrvPlayDir` with a list of names, the seeks that `SrvTrackChange` makes in a file played for a while, `playState` in
  `PlayDir`.
* The failure of `pthread_create` for `avLoop` and `dirInit`.

## Plan

Done, in this order: `Recorder`, its proofs, `Monitor`, `Player`, `PlayDir`; `Playback` and its three implementations,
`Plugins` and `Server` with slide show, history and dispatcher, `ServerProofs`; `PlayDirProofs`, `PlayerProofs`, `MonitorProofs`,
`RecorderClockProofs`.

Extending the model:

1. An abstract `Suppression` specification for the monitor (requests in, on or off out) that `Monitor` implements when
   output modes do not change.
2. In `PlayDir`, the rounds `nextFileLoop` makes with a `firstplay` outside the directory, and which seek is obeyed; the
   book mark of the history with them.
3. Failing threads: `pthread_create` for `avLoop` in `Player`, for `dirInit` in `PlayDir`.

Proving more:

1. An abstract recording (opened, paused, closed once, refused or failed) that `Recorder` implements until a start fails late.
2. The refinement of `Suppression` by `Monitor`.
3. In `Server`, that `Crash` is out of the question while a file plays, as a theorem of its own.
