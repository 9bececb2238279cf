---------------------------- MODULE PlayerProofs ----------------------------
(***************************************************************************)
(* Proofs about Player, for every set of faults of playFile.               *)
(***************************************************************************)
EXTENDS Player, TLAPS

-----------------------------------------------------------------------------
(* The inductive invariant, by parts                                        *)

(* In these places of avLoop the plugins are closed, and in these nothing is *)
(* being played.                                                            *)
ClosedLabels == {"none", "end", "done"}
OverLabels == {"none", "done"}

PlugInv ==
  /\ input = IF av \in ClosedLabels THEN "closed" ELSE "started"
  /\ output = IF av \in ClosedLabels THEN "closed" ELSE "open"

PlayInv ==
  /\ av \in OverLabels => playing = FALSE
  /\ cmd = "open" => av = "none"

(* Who has paused the output remembers it: by loc_preState, which has it     *)
(* resumed on the way to bail, or by having met the end of the file, after  *)
(* which it is resumed before it is finished.                               *)
PauseInv ==
  /\ paused = TRUE => pre = "PAUSE" \/ quit = FALSE
  /\ av \in ClosedLabels \cup {"start", "preload"} => paused = FALSE
  /\ av \in {"seek", "scan", "finish"} /\ paused = TRUE => quit = FALSE
  /\ av \in {"restore", "drain"} => quit = FALSE

IInv == TypeOK /\ PlugInv /\ PlayInv /\ PauseInv

-----------------------------------------------------------------------------
(* The steps, by who makes them                                             *)

(* avLoop up to a state that plays, in the others, in what all states have  *)
(* in common, and from bail on.                                             *)
AvPlays == \/ AvStart \/ AvPreload \/ AvLoop
           \/ AvPause \/ AvPlay \/ AvResume \/ AvSeek \/ AvSought
AvScans == \/ AvScanEnter \/ AvScanAgain \/ AvScanIdle
           \/ AvScanStep \/ AvScanEnd \/ AvScanStart
AvMoves == AvFrame \/ AvSlow \/ AvRepeat \/ AvFetch
AvEnds == AvBail \/ AvRestore \/ AvDrain \/ AvDrained \/ AvFinish \/ AvEnd

(* The commands that start or stop a playback, and those that steer it.     *)
Starts == \/ SrvStop \/ SrvPlayFile \/ SrvPlayHistory
          \/ StopJoin \/ PlayFile \/ PlayFileReturns
          \/ \E fault \in Faults : PlayFileFails(fault)
Steers == \/ SeekToMark \/ SrvSeek \/ SrvPauseUnpause
          \/ \E level \in -1..1 : SrvFfRw(level)
          \/ \E level \in 0..1 : SrvSfRw(level)
          \/ \E direction \in 0..1 : SrvFrameByFrame(direction)
          \/ \E ab \in -1..1 : SrvRepeatAB(ab)
          \/ \E mode \in EditModes : SrvSetEditmode(mode)

(* Every step is of one of these groups.                                    *)
LEMMA StepCases ==
  ASSUME [Next]_vars
  PROVE  AvPlays \/ AvScans \/ AvMoves \/ AvEnds \/ Starts \/ Steers \/ UNCHANGED vars
BY Zenon DEF Next, AvThread, Continue, Call, AvPlays, AvScans, AvMoves, AvEnds, Starts, Steers

-----------------------------------------------------------------------------
(* Each part of the invariant is kept                                       *)

(* In what follows the steps are expanded.                                  *)
USE DEF stateVars, levelVars, flagVars, localVars, plugVars, cmdVars, UseInput, FinishPlugins,
  AvPlays, AvStart, AvPreload, AvLoop, AvPause, AvPlay, AvResume, AvSeek, AvSought,
  AvScans, AvScanEnter, AvScanAgain, AvScanIdle, AvScanStep, AvScanEnd, AvScanStart,
  AvMoves, AvFrame, AvSlow, AvRepeat, AvFetch,
  AvEnds, AvBail, AvRestore, AvDrain, AvDrained, AvFinish, AvEnd,
  Starts, SrvStop, SrvPlayFile, SrvPlayHistory, CommandStop, Called, Return, StopJoin,
  PlayFile, PlayFileReturns, PlayFileFails,
  Steers, SeekToMark, SrvSeek, Seek, StateCommand, SrvPauseUnpause, SrvFfRw, SrvSfRw,
  SrvFrameByFrame, SrvRepeatAB, SrvSetEditmode

(* The flags stay Booleans.                                                 *)
LEMMA FlagTypesStep ==
  ASSUME FlagTypes, [Next]_vars PROVE FlagTypes'
<1> USE DEF FlagTypes
<1>1. CASE AvPlays
  BY <1>1, Zenon
<1>2. CASE AvScans
  BY <1>2, Zenon
<1>3. CASE AvMoves
  BY <1>3, Zenon
<1>4. CASE AvEnds
  BY <1>4, Zenon
<1>5. CASE Starts
  BY <1>5, Zenon
<1>6. CASE Steers
  BY <1>6, EditModesAssumption, Zenon
<1>7. CASE UNCHANGED vars
  BY <1>7, Zenon DEF vars
<1>. QED BY StepCases, <1>1, <1>2, <1>3, <1>4, <1>5, <1>6, <1>7, Zenon

(* The levels stay within those a client may ask for.                       *)
LEMMA LevelTypesStep ==
  ASSUME LevelTypes, [Next]_vars PROVE LevelTypes'
<1> USE DEF LevelTypes
<1>1. CASE AvPlays
  BY <1>1
<1>2. CASE AvScans
  BY <1>2
<1>3. CASE AvMoves
  BY <1>3
<1>4. CASE AvEnds
  BY <1>4
<1>5. CASE Starts
  BY <1>5
<1>6. CASE Steers
  <2>1. CASE SrvPauseUnpause
    BY <2>1
  <2>2. CASE (\E level \in -1..1 : SrvFfRw(level)) \/ (\E level \in 0..1 : SrvSfRw(level))
    BY <2>2
  <2>3. CASE SeekToMark \/ SrvSeek
    BY <2>3
  <2>4. CASE \/ \E direction \in 0..1 : SrvFrameByFrame(direction)
             \/ \E ab \in -1..1 : SrvRepeatAB(ab)
             \/ \E mode \in EditModes : SrvSetEditmode(mode)
    BY <2>4
  <2>. QED BY <1>6, <2>1, <2>2, <2>3, <2>4, Zenon
<1>7. CASE UNCHANGED vars
  BY <1>7 DEF vars
<1>. QED BY StepCases, <1>1, <1>2, <1>3, <1>4, <1>5, <1>6, <1>7, Zenon

(* The other statics, the places of the threads and the locals.             *)
LEMMA StaticTypesStep ==
  ASSUME StaticTypes, [Next]_vars PROVE StaticTypes'
<1> USE DEF StaticTypes, States, AvLabels
<1>1. CASE AvPlays
  <2>1. CASE AvLoop
    BY <2>1
  <2>2. CASE AvStart \/ AvPreload \/ AvPause \/ AvPlay \/ AvResume \/ AvSeek \/ AvSought
    BY <2>2, Zenon
  <2>. QED BY <1>1, <2>1, <2>2, Zenon
<1>2. CASE AvScans
  BY <1>2, Zenon
<1>3. CASE AvMoves
  BY <1>3, Zenon
<1>4. CASE AvEnds
  BY <1>4, Zenon
<1>5. CASE Starts
  BY <1>5, Zenon
<1>6. CASE Steers
  BY <1>6, Zenon
<1>7. CASE UNCHANGED vars
  BY <1>7 DEF vars
<1>. QED BY StepCases, <1>1, <1>2, <1>3, <1>4, <1>5, <1>6, <1>7, Zenon

(* The handle is set and cleared with the thread.                           *)
LEMMA HandleStep ==
  ASSUME StaticTypes, HandleSet, [Next]_vars PROVE HandleSet'
<1> USE DEF StaticTypes, States, HandleSet
<1>1. CASE AvPlays
  BY <1>1, Zenon
<1>2. CASE AvScans
  BY <1>2, Zenon
<1>3. CASE AvMoves
  BY <1>3, Zenon
<1>4. CASE AvEnds
  BY <1>4, Zenon
<1>5. CASE Starts
  BY <1>5, Zenon
<1>6. CASE Steers
  BY <1>6, Zenon
<1>7. CASE UNCHANGED vars
  BY <1>7, Zenon DEF vars
<1>. QED BY StepCases, <1>1, <1>2, <1>3, <1>4, <1>5, <1>6, <1>7, Zenon

(* Whichever way avLoop goes the plugins are as far as it is.               *)
LEMMA PlugStep ==
  ASSUME StaticTypes, HandleSet, PlugInv, PlayInv, PauseInv, [Next]_vars PROVE PlugInv'
<1> USE DEF StaticTypes, States, HandleSet, PlugInv, PlayInv, PauseInv, ClosedLabels, OverLabels
<1>1. CASE AvPlays
  <2>1. CASE AvLoop
    BY <2>1, Zenon
  <2>2. CASE AvStart \/ AvPreload \/ AvPause \/ AvPlay \/ AvResume \/ AvSeek \/ AvSought
    BY <2>2, Zenon
  <2>. QED BY <1>1, <2>1, <2>2, Zenon
<1>2. CASE AvScans
  BY <1>2, Zenon
<1>3. CASE AvMoves
  BY <1>3, Zenon
<1>4. CASE AvEnds
  BY <1>4, Zenon
<1>5. CASE Starts
  BY <1>5, Zenon
<1>6. CASE Steers
  BY <1>6, Zenon
<1>7. CASE UNCHANGED vars
  BY <1>7, Zenon DEF vars
<1>. QED BY StepCases, <1>1, <1>2, <1>3, <1>4, <1>5, <1>6, <1>7, Zenon

(* Nothing is being played before avLoop exists or after it has ended.      *)
LEMMA PlayStep ==
  ASSUME StaticTypes, HandleSet, PlayInv, [Next]_vars PROVE PlayInv'
<1> USE DEF StaticTypes, States, HandleSet, PlayInv, OverLabels
<1>1. CASE AvPlays
  <2>1. CASE AvLoop
    BY <2>1, Zenon
  <2>2. CASE AvStart \/ AvPreload \/ AvPause \/ AvPlay \/ AvResume \/ AvSeek \/ AvSought
    BY <2>2, Zenon
  <2>. QED BY <1>1, <2>1, <2>2, Zenon
<1>2. CASE AvScans
  BY <1>2, Zenon
<1>3. CASE AvMoves
  BY <1>3, Zenon
<1>4. CASE AvEnds
  BY <1>4, Zenon
<1>5. CASE Starts
  BY <1>5, Zenon
<1>6. CASE Steers
  BY <1>6, Zenon
<1>7. CASE UNCHANGED vars
  BY <1>7, Zenon DEF vars
<1>. QED BY StepCases, <1>1, <1>2, <1>3, <1>4, <1>5, <1>6, <1>7, Zenon

(* Who has paused the output still knows.                                   *)
LEMMA PauseStep ==
  ASSUME FlagTypes, StaticTypes, HandleSet, PlayInv, PauseInv, [Next]_vars PROVE PauseInv'
<1> USE DEF FlagTypes, StaticTypes, States, HandleSet, PlayInv, PauseInv, ClosedLabels, OverLabels
<1>1. CASE AvPlays
  <2>1. CASE AvLoop
    BY <2>1, Zenon
  <2>2. CASE AvStart \/ AvPreload \/ AvPause \/ AvPlay \/ AvResume \/ AvSeek \/ AvSought
    BY <2>2, Zenon
  <2>. QED BY <1>1, <2>1, <2>2, Zenon
<1>2. CASE AvScans
  BY <1>2, Zenon
<1>3. CASE AvMoves
  BY <1>3, Zenon
<1>4. CASE AvEnds
  BY <1>4, Zenon
<1>5. CASE Starts
  BY <1>5, Zenon
<1>6. CASE Steers
  BY <1>6, Zenon
<1>7. CASE UNCHANGED vars
  BY <1>7, Zenon DEF vars
<1>. QED BY StepCases, <1>1, <1>2, <1>3, <1>4, <1>5, <1>6, <1>7, Zenon

-----------------------------------------------------------------------------
(* The theorems                                                             *)

(* The invariant holds of every state that can be reached.                  *)
THEOREM Invariance == Spec => []IInv
<1>1. Init => IInv
  <2> SUFFICES ASSUME Init PROVE IInv
    OBVIOUS
  <2> USE DEF Init
  <2>1. FlagTypes /\ StaticTypes /\ HandleSet /\ PlugInv /\ PlayInv /\ PauseInv
    BY Zenon DEF FlagTypes, StaticTypes, States, AvLabels, HandleSet, PlugInv, PlayInv,
                 PauseInv, ClosedLabels, OverLabels
  <2>2. LevelTypes
    BY DEF LevelTypes
  <2>. QED BY <2>1, <2>2, Zenon DEF IInv, TypeOK
<1>2. IInv /\ [Next]_vars => IInv'
  BY FlagTypesStep, LevelTypesStep, StaticTypesStep, HandleStep, PlugStep, PlayStep, PauseStep,
     Zenon DEF IInv, TypeOK
<1>. QED BY <1>1, <1>2, PTL DEF Spec

(* The statics and the threads keep their types, and the handle of avLoop   *)
(* is set exactly while the thread is there to be joined.                   *)
THEOREM TypeCorrect == Spec => []TypeOK
<1>1. IInv => TypeOK
  BY Zenon DEF IInv
<1>. QED BY <1>1, Invariance, PTL

(* No sequence of states and commands has avLoop call a plugin out of turn, *)
(* or finish an output that is paused.                                      *)
THEOREM PluginProtocolHolds == Spec => []PluginProtocol
<1>1. IInv => PluginProtocol
  BY Zenon DEF IInv, PlugInv, PluginProtocol
<1>. QED BY <1>1, Invariance, PTL

(* When a stop has joined avLoop nothing of the playback is left.           *)
THEOREM ClosedAfterStopHolds == Spec => []ClosedAfterStop
<1>1. IInv => ClosedAfterStop
  BY Zenon DEF IInv, TypeOK, HandleSet, PlugInv, PlayInv, PauseInv, ClosedAfterStop,
               ClosedLabels, OverLabels
<1>. QED BY <1>1, Invariance, PTL

-----------------------------------------------------------------------------
(* Player implements Playback                                               *)

(* What avLoop's place says of the playback.                                *)
PhaseIs ==
  /\ av = "none" => Phase = "closed"
  /\ av \notin ClosedLabels => Phase = "open"
  /\ av \in {"end", "done"} => Phase = "over"

(* The refinement mapping computes that from the plugins: it is not "broken".*)
LEMMA PhaseInv == HandleSet /\ PlugInv => PhaseIs
BY Zenon DEF HandleSet, PlugInv, PhaseIs, Phase, ClosedLabels

Stopping == cmd = "join"

(* What a step is to the playback: nothing, or one step of it.              *)
LEMMA PlaybackStep ==
  ASSUME IInv, [Next]_vars
  PROVE  \/ /\ av' = av \/ (av \notin ClosedLabels /\ av' \notin ClosedLabels)
                        \/ (av = "end" /\ av' = "done")
            /\ Stopping' = Stopping /\ UNCHANGED paused
         \/ /\ av \notin ClosedLabels /\ av' \notin ClosedLabels
            /\ Stopping' = Stopping /\ paused' = ~paused
         \/ /\ av = "none" /\ av' = "start"
            /\ ~Stopping /\ ~Stopping' /\ UNCHANGED paused
         \/ av = "finish" /\ av' = "end" /\ Stopping' = Stopping /\ paused' = FALSE
         \/ av' = av /\ ~Stopping /\ Stopping' /\ UNCHANGED paused
         \/ /\ av \in {"none", "done"} /\ av' = "none"
            /\ Stopping /\ ~Stopping' /\ UNCHANGED paused
<1> USE DEF IInv, TypeOK, FlagTypes, StaticTypes, HandleSet, States, PlayInv, PauseInv,
            ClosedLabels, OverLabels, Stopping
<1>1. CASE AvPlays
  BY <1>1, Zenon
<1>2. CASE AvScans
  BY <1>2, Zenon
<1>3. CASE AvMoves
  BY <1>3, Zenon
<1>4. CASE AvEnds
  BY <1>4, Zenon
<1>5. CASE Starts
  <2>1. CASE SrvStop \/ SrvPlayFile \/ SrvPlayHistory
    BY <2>1, Zenon
  <2>2. CASE StopJoin
    BY <2>2, Zenon
  <2>3. CASE PlayFile
    BY <2>3, Zenon
  <2>4. CASE PlayFileReturns \/ \E fault \in Faults : PlayFileFails(fault)
    BY <2>4, Zenon
  <2>. QED BY <1>5, <2>1, <2>2, <2>3, <2>4, Zenon
<1>6. CASE Steers
  BY <1>6, Zenon
<1>7. CASE UNCHANGED vars
  BY <1>7, Zenon DEF vars
<1>. QED BY StepCases, <1>1, <1>2, <1>3, <1>4, <1>5, <1>6, <1>7, Zenon

(* Through all its states, and whichever way it ends, the playback is one   *)
(* that its callers know: opened and closed as a whole, never while paused. *)
THEOREM PlayerImplementsPlayback == Spec => ImplementsPlayback
<1>1. Init => Abstract!Init
  BY Zenon DEF Init, Abstract!Init, Phase
<1>2. IInv /\ PhaseIs /\ PhaseIs' /\ [Next]_vars => [Abstract!Next]_(Abstract!vars)
  <2> SUFFICES ASSUME IInv, PhaseIs, PhaseIs', [Next]_vars
               PROVE  [Abstract!Next]_(Abstract!vars)
    OBVIOUS
  <2>. QED
    BY PlaybackStep, Zenon
    DEF PhaseIs, Stopping, ClosedLabels, Abstract!Next, Abstract!Play, Abstract!PauseUnpause,
        Abstract!End, Abstract!Stop, Abstract!Stopped, Abstract!vars
<1>3. IInv => PhaseIs
  BY PhaseInv, Zenon DEF IInv, TypeOK
<1>. QED BY <1>1, <1>2, <1>3, Invariance, PTL DEF Spec, ImplementsPlayback, Abstract!Spec

=============================================================================
