---------------------------- MODULE PlayDirProofs ----------------------------
(***************************************************************************)
(* Proofs about PlayDir, for directories of any size and for any modes that *)
(* a client may set.                                                       *)
(***************************************************************************)
EXTENDS PlayDir, TLAPS

-----------------------------------------------------------------------------
(* The inductive invariant, by parts                                        *)

(* In these places of stopServer, and of what follows it, nextFileLoop has  *)
(* been joined, and then dirInit, and then avLoop.                          *)
NextJoined == {"joinInit", "joinAv", "stopped", "stat", "open", "create"}
InitJoined == NextJoined \ {"joinInit"}
AvJoined == {"stopped", "stat", "open"}

(* In these ones SrvPlayDir knows that no file plays yet.                   *)
Trying == cmd \in {"waitInit", "try", "giveUp"} \/ (cmd = "create" /\ status # 0)

(* Which command has got where.                                             *)
CallerInv ==
  /\ cmd \in {"joinNext", "joinInit", "joinAv", "stopped"} =>
       caller \in {"SrvStop", "SrvPlayFile", "SrvPlayDir", "cleanup"}
  /\ cmd \in {"stat", "open"} => caller \in {"SrvPlayFile", "SrvPlayDir"}
  /\ cmd = "tried" => status = 0
  /\ cmd \in {"waitInit", "try"} => status # 0

(* One playback at a time: who is about to play a file is alone to do so.   *)
TurnInv ==
  /\ cmd \in NextJoined => nx = "none"
  /\ cmd \in AvJoined \/ Trying \/ nx = "open" => av = "none"
  /\ Trying => nx \in {"none", "init", "top", "wait"}

(* The plugins and the playback flag are as far as avLoop is.               *)
AvInv ==
  /\ plugins = IF av \in {"run", "restore", "drain"} THEN "open" ELSE "closed"
  /\ av \in {"none", "done"} => playing = FALSE

(* dirInit is created with nextFileLoop and joined after it.                *)
InitInv ==
  /\ dirInited = (di = "done")
  /\ cmd \in InitJoined => di = "none"

(* The flags nextFileLoop obeys: it is told to end until it is joined, and   *)
(* has no track to change to before a file plays.                           *)
FlagInv ==
  /\ cmd \in {"joinNext", "joinInit", "joinAv", "stopped"} => going = FALSE
  /\ cmd \in {"stat", "open"} \/ Trying => going = TRUE /\ trackChange = "DISABLE"

IInv == TypeOK /\ CallerInv /\ TurnInv /\ AvInv /\ InitInv /\ FlagInv

-----------------------------------------------------------------------------
(* The steps, by who makes them                                             *)

Result == {-1, 1}

(* stopServer, in the command thread.                                       *)
Stops ==
  \/ SrvStop \/ SrvPlayFile \/ SrvPlayDir \/ GiveUp
  \/ JoinNext \/ JoinInit \/ JoinAv \/ Stopped

(* SrvPlayFile and SrvPlayDir after it, without the steps that play a file. *)
Plays ==
  \/ Opened \/ Stat \/ StatFails \/ CreateStatFails \/ Create \/ WaitInit \/ Tried

(* playFile, in the command thread.                                         *)
Tries ==
  \/ Open \/ (\E result \in Result : OpenFails(result))
  \/ TryFile \/ (\E result \in Result : TryFileFails(result))

(* The other commands.                                                      *)
Others ==
  \/ SrvTrackChange \/ TrackChange
  \/ \E mode \in RepeatModes : SrvSetRepeatmode(mode)
  \/ \E mode \in PlayModes : SrvSetPlaymode(mode)

(* Every step is of one of these groups.                                    *)
LEMMA StepCases ==
  ASSUME [Next]_vars
  PROVE  AvThread \/ DirInit \/ NextThread \/ Stops \/ Plays \/ Tries \/ Others \/ UNCHANGED vars
BY Zenon DEF Next, Continue, Call, Stops, Plays, Tries, Others, Result

-----------------------------------------------------------------------------
(* What the helpers return                                                  *)

(* stopServer returns to the command that called it.                        *)
LEMMA StoppedCases ==
  ASSUME CallerInv, Stopped
  PROVE  /\ cmd = "stopped" /\ trackChange' = "DISABLE"
         /\ \/ cmd' = "idle" /\ UNCHANGED <<going, playtype>>
               /\ errorStatus' \in {errorStatus, "STOPPED"}
            \/ /\ cmd' = "open" /\ caller' = "SrvPlayFile"
               /\ going' = TRUE /\ playtype' = "FILE" /\ UNCHANGED errorStatus
            \/ /\ cmd' = "stat" /\ caller' = "SrvPlayDir"
               /\ going' = TRUE /\ playtype' = "DIR" /\ UNCHANGED errorStatus
         /\ UNCHANGED <<playing, requestToStopPlaying, modeVars, firstplay, dirVars, avVars,
                        nxVars, di, tryVars, plugins>>
BY Zenon DEF CallerInv, Stopped, Return

(* getNewIndex returns an index, or -1.                                     *)
LEMMA NewIndexTypes ==
  ASSUME StaticTypes PROVE NewIndexes \subseteq {i \in Int : i >= -1}
<1>1. Neighbour \in Nat \cup {-1}
  BY DEF StaticTypes, Neighbour
<1>2. 0..(totalFiles - 1) \subseteq Nat /\ fileIdx \in Nat
  BY DEF StaticTypes
<1>3. NewIndexes \subseteq Nat \cup {-1}
  BY <1>1, <1>2, Zenon DEF NewIndexes
<1>. QED BY <1>3

-----------------------------------------------------------------------------
(* Each part of the invariant is kept                                       *)

(* In what follows the steps are expanded, but for the helpers above.       *)
USE DEF playVars, modeVars, nextVars, dirVars, avVars, nxVars, cmdVars, tryVars,
  AvThread, AvEof, AvBail, AvRestore, AvBack, AvEnd, AvQuit, AvDrained, DirInit, Up,
  NextThread, NextInited, NextTop, NextWoken, NextIndex, NextDivides, NextStop, NextJoin, NextPlay,
  NextPlayFails, NextOpened, NextOver, PlayFile, PlayFileFails,
  Stops, SrvStop, SrvPlayFile, SrvPlayDir, GiveUp, StopServer, Called, Return, JoinNext,
  JoinInit, JoinAv, Plays, Opened, Stat, StatFails, CreateStatFails, Create, WaitInit, Tried,
  Tries, Open, OpenFails, TryFile, TryFileFails, Result,
  Others, SrvTrackChange, TrackChange, SrvSetRepeatmode, SrvSetPlaymode

(* The flags stay Booleans.                                                 *)
LEMMA FlagTypesStep ==
  ASSUME FlagTypes, CallerInv, [Next]_vars PROVE FlagTypes'
<1> USE DEF FlagTypes
<1>1. CASE AvThread
  BY <1>1, Zenon
<1>2. CASE DirInit
  BY <1>2, Zenon
<1>3. CASE NextThread
  BY <1>3, Zenon
<1>4. CASE Stops
  BY <1>4, StoppedCases, Zenon
<1>5. CASE Plays
  BY <1>5, Zenon
<1>6. CASE Tries
  BY <1>6, Zenon
<1>7. CASE Others
  BY <1>7, Zenon
<1>8. CASE UNCHANGED vars
  BY <1>8, Zenon DEF vars
<1>. QED BY StepCases, <1>1, <1>2, <1>3, <1>4, <1>5, <1>6, <1>7, <1>8, Zenon

(* The other statics, the places of the threads and the locals.             *)
LEMMA StaticTypesStep ==
  ASSUME StaticTypes, CallerInv, [Next]_vars PROVE StaticTypes'
<1> USE DEF StaticTypes, AllRepeatModes, AllPlayModes
<1>1. CASE AvThread
  BY <1>1, Zenon
<1>2. CASE DirInit
  BY <1>2, TotalsAssumption
<1>3. CASE NextThread
  <2>1. CASE NextIndex
    BY <2>1, NewIndexTypes
  <2>2. CASE NextInited
    BY <2>2
  <2>3. CASE \/ NextTop \/ NextWoken \/ NextDivides \/ NextStop \/ NextJoin \/ NextPlay
             \/ NextOpened \/ NextOver \/ \E result \in {-1, 1} : NextPlayFails(result)
    BY <2>3, Zenon
  <2>. QED BY <1>3, <2>1, <2>2, <2>3, Zenon
<1>4. CASE Stops
  BY <1>4, StoppedCases, Zenon
<1>5. CASE Plays
  BY <1>5
<1>6. CASE Tries
  BY <1>6
<1>7. CASE Others
  BY <1>7, RepeatModesAssumption, PlayModesAssumption
<1>8. CASE UNCHANGED vars
  BY <1>8 DEF vars
<1>. QED BY StepCases, <1>1, <1>2, <1>3, <1>4, <1>5, <1>6, <1>7, <1>8, Zenon

(* Nobody stops a playback that somebody else is stopping.                  *)
LEMMA StopperStep ==
  ASSUME OneStopper, CallerInv, TurnInv, [Next]_vars PROVE OneStopper'
<1> USE DEF OneStopper, TurnInv, NextJoined, AvJoined, Trying
<1>1. CASE AvThread
  BY <1>1, Zenon
<1>2. CASE DirInit
  BY <1>2, Zenon
<1>3. CASE NextThread
  BY <1>3, Zenon
<1>4. CASE Stops
  BY <1>4, StoppedCases, Zenon
<1>5. CASE Plays
  BY <1>5, Zenon
<1>6. CASE Tries
  BY <1>6, Zenon
<1>7. CASE Others
  BY <1>7, Zenon
<1>8. CASE UNCHANGED vars
  BY <1>8, Zenon DEF vars
<1>. QED BY StepCases, <1>1, <1>2, <1>3, <1>4, <1>5, <1>6, <1>7, <1>8, Zenon

(* Each command goes its own way.                                           *)
LEMMA CallerStep ==
  ASSUME CallerInv, [Next]_vars PROVE CallerInv'
<1> USE DEF CallerInv
<1>1. CASE AvThread
  BY <1>1, Zenon
<1>2. CASE DirInit
  BY <1>2, Zenon
<1>3. CASE NextThread
  BY <1>3, Zenon
<1>4. CASE Stops
  BY <1>4, StoppedCases, Zenon
<1>5. CASE Plays
  BY <1>5
<1>6. CASE Tries
  BY <1>6
<1>7. CASE Others
  BY <1>7, Zenon
<1>8. CASE UNCHANGED vars
  BY <1>8, Zenon DEF vars
<1>. QED BY StepCases, <1>1, <1>2, <1>3, <1>4, <1>5, <1>6, <1>7, <1>8, Zenon

(* Nobody plays a file unless it is his turn.                               *)
LEMMA TurnStep ==
  ASSUME FlagTypes, OneStopper, CallerInv, TurnInv, FlagInv, [Next]_vars PROVE TurnInv'
<1> USE DEF OneStopper, TurnInv, NextJoined, AvJoined, Trying, CallerInv, FlagInv
<1>1. CASE AvThread
  BY <1>1, Zenon
<1>2. CASE DirInit
  BY <1>2, Zenon
<1>3. CASE NextThread
  BY <1>3, Zenon
<1>4. CASE Stops
  BY <1>4, StoppedCases, Zenon
<1>5. CASE Plays
  BY <1>5, Zenon
<1>6. CASE Tries
  BY <1>6, Zenon
<1>7. CASE Others
  BY <1>7, Zenon
<1>8. CASE UNCHANGED vars
  BY <1>8, Zenon DEF vars
<1>. QED BY StepCases, <1>1, <1>2, <1>3, <1>4, <1>5, <1>6, <1>7, <1>8, Zenon

(* A file is played only from where avLoop is not there.                    *)
LEMMA AvStep ==
  ASSUME FlagTypes, CallerInv, TurnInv, AvInv, [Next]_vars PROVE AvInv'
<1> USE DEF TurnInv, NextJoined, AvJoined, Trying, AvInv
<1>1. CASE AvThread
  BY <1>1, Zenon
<1>2. CASE DirInit
  BY <1>2, Zenon
<1>3. CASE NextThread
  BY <1>3, Zenon
<1>4. CASE Stops
  BY <1>4, StoppedCases, Zenon
<1>5. CASE Plays
  BY <1>5, Zenon
<1>6. CASE Tries
  BY <1>6, Zenon
<1>7. CASE Others
  BY <1>7, Zenon
<1>8. CASE UNCHANGED vars
  BY <1>8, Zenon DEF vars
<1>. QED BY StepCases, <1>1, <1>2, <1>3, <1>4, <1>5, <1>6, <1>7, <1>8, Zenon

(* dirInited says that dirInit is over, and not yet joined.                 *)
LEMMA InitStep ==
  ASSUME OneStopper, CallerInv, TurnInv, InitInv, [Next]_vars PROVE InitInv'
<1> USE DEF OneStopper, TurnInv, NextJoined, AvJoined, InitJoined, Trying, InitInv
<1>1. CASE AvThread
  BY <1>1, Zenon
<1>2. CASE DirInit
  BY <1>2, Zenon
<1>3. CASE NextThread
  BY <1>3, Zenon
<1>4. CASE Stops
  BY <1>4, StoppedCases, Zenon
<1>5. CASE Plays
  BY <1>5, Zenon
<1>6. CASE Tries
  BY <1>6, Zenon
<1>7. CASE Others
  BY <1>7, Zenon
<1>8. CASE UNCHANGED vars
  BY <1>8, Zenon DEF vars
<1>. QED BY StepCases, <1>1, <1>2, <1>3, <1>4, <1>5, <1>6, <1>7, <1>8, Zenon

(* nextFileLoop is told to end, or to wait for a file to play.              *)
LEMMA FlagStep ==
  ASSUME OneStopper, CallerInv, TurnInv, FlagInv, [Next]_vars PROVE FlagInv'
<1> USE DEF OneStopper, TurnInv, NextJoined, AvJoined, Trying, CallerInv, FlagInv
<1>1. CASE AvThread
  BY <1>1, Zenon
<1>2. CASE DirInit
  BY <1>2, Zenon
<1>3. CASE NextThread
  BY <1>3, Zenon
<1>4. CASE Stops
  BY <1>4, StoppedCases, Zenon
<1>5. CASE Plays
  BY <1>5, Zenon
<1>6. CASE Tries
  BY <1>6, Zenon
<1>7. CASE Others
  BY <1>7, Zenon
<1>8. CASE UNCHANGED vars
  BY <1>8, Zenon DEF vars
<1>. QED BY StepCases, <1>1, <1>2, <1>3, <1>4, <1>5, <1>6, <1>7, <1>8, Zenon

-----------------------------------------------------------------------------
(* The theorems                                                             *)

(* The invariant holds of every state that can be reached.                  *)
THEOREM Invariance == Spec => []IInv
<1>1. Init => IInv
  <2> SUFFICES ASSUME Init PROVE IInv
    OBVIOUS
  <2> USE DEF Init
  <2>1. FlagTypes /\ OneStopper /\ CallerInv /\ TurnInv /\ AvInv /\ InitInv /\ FlagInv
    BY Zenon DEF FlagTypes, OneStopper, CallerInv, TurnInv, AvInv, InitInv, FlagInv,
                 NextJoined, InitJoined, AvJoined, Trying
  <2>2. StaticTypes
    BY DEF StaticTypes, AllRepeatModes, AllPlayModes
  <2>. QED BY <2>1, <2>2, Zenon DEF IInv, TypeOK
<1>2. IInv /\ [Next]_vars => IInv'
  BY FlagTypesStep, StaticTypesStep, StopperStep, CallerStep, TurnStep, AvStep, InitStep,
     FlagStep, Zenon DEF IInv, TypeOK
<1>. QED BY <1>1, <1>2, PTL DEF Spec

(* The statics and the threads keep their types, and of the command thread  *)
(* and nextFileLoop one at most waits for avLoop to end.                    *)
THEOREM TypeCorrect == Spec => []TypeOK
<1>1. IInv => TypeOK
  BY Zenon DEF IInv
<1>. QED BY <1>1, Invariance, PTL

(* The command thread and nextFileLoop never open the plugins twice, and    *)
(* never finish a playback twice.                                           *)
THEOREM PluginProtocolHolds == Spec => []PluginProtocol
<1>1. IInv => PluginProtocol
  BY Zenon DEF IInv, AvInv, PluginProtocol
<1>. QED BY <1>1, Invariance, PTL

(* When stopServer is over nothing of the last playback is left.            *)
THEOREM StoppedIsStoppedHolds == Spec => []StoppedIsStopped
<1>1. IInv => StoppedIsStopped
  BY Zenon DEF IInv, TypeOK, FlagTypes, TurnInv, AvInv, InitInv, FlagInv, StoppedIsStopped,
               NextJoined, InitJoined, AvJoined
<1>. QED BY <1>1, Invariance, PTL

-----------------------------------------------------------------------------
(* PlayDir implements Playback                                              *)

(* What avLoop's place says of the playback.                                *)
PhaseIs ==
  /\ av = "none" => Phase = "closed"
  /\ av \in {"run", "restore", "drain"} => Phase = "open"
  /\ av = "done" => Phase = "over"

(* The refinement mapping computes that from the plugins: it is not "broken".*)
LEMMA PhaseInv == AvInv => PhaseIs
BY Zenon DEF AvInv, PhaseIs, Phase

(* What a step is to the playback: nothing, or one step of it.              *)
LEMMA PlaybackStep ==
  ASSUME IInv, [Next]_vars
  PROVE  \/ av' = av /\ UNCHANGED requestToStopPlaying
         \/ av \in {"run", "restore", "drain"} /\ av' \in {"run", "restore", "drain"}
            /\ UNCHANGED requestToStopPlaying
         \/ av = "none" /\ av' = "run" /\ ~requestToStopPlaying /\ UNCHANGED requestToStopPlaying
         \/ av \in {"run", "drain"} /\ av' = "done" /\ UNCHANGED requestToStopPlaying
         \/ av' = av /\ ~requestToStopPlaying /\ requestToStopPlaying' = TRUE
         \/ /\ av \in {"none", "done"} /\ av' = "none"
            /\ requestToStopPlaying /\ requestToStopPlaying' = FALSE
<1> USE DEF IInv, TypeOK, OneStopper, TurnInv, NextJoined, AvJoined, Trying
<1>1. CASE AvThread
  BY <1>1, Zenon
<1>2. CASE DirInit
  BY <1>2, Zenon
<1>3. CASE NextThread
  BY <1>3, Zenon
<1>4. CASE Stops
  BY <1>4, StoppedCases, Zenon
<1>5. CASE Plays
  BY <1>5, Zenon
<1>6. CASE Tries
  BY <1>6, Zenon
<1>7. CASE Others
  BY <1>7, Zenon
<1>8. CASE UNCHANGED vars
  BY <1>8, Zenon DEF vars
<1>. QED BY StepCases, <1>1, <1>2, <1>3, <1>4, <1>5, <1>6, <1>7, <1>8, Zenon

(* However the command thread and nextFileLoop take turns, each playback is *)
(* the one that Player has in full.                                         *)
THEOREM PlayDirImplementsPlayback == Spec => ImplementsPlayback
<1>1. Init => Abstract!Init
  BY Zenon DEF Init, Abstract!Init, Phase
<1>2. IInv /\ PhaseIs /\ PhaseIs' /\ [Next]_vars => [Abstract!Next]_(Abstract!vars)
  <2> SUFFICES ASSUME IInv, PhaseIs, PhaseIs', [Next]_vars
               PROVE  [Abstract!Next]_(Abstract!vars)
    OBVIOUS
  <2>1. StaticTypes
    BY Zenon DEF IInv, TypeOK
  <2>. QED
    BY <2>1, PlaybackStep, Zenon
    DEF PhaseIs, Abstract!Next, Abstract!Play, Abstract!End, Abstract!Stop, Abstract!Stopped,
        Abstract!vars, StaticTypes
<1>3. IInv => PhaseIs
  BY PhaseInv, Zenon DEF IInv
<1>. QED BY <1>1, <1>2, <1>3, Invariance, PTL DEF Spec, ImplementsPlayback, Abstract!Spec

=============================================================================
