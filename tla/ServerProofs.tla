---------------------------- MODULE ServerProofs ----------------------------
(***************************************************************************)
(* Proofs about Server, for every value of its constants: whatever plugins *)
(* are installed, with any number of outputs.                              *)
(***************************************************************************)
EXTENDS Server, TLAPS

-----------------------------------------------------------------------------
(* The inductive invariant, by parts                                        *)

(* Which thread is in playFile, and what the others do meanwhile.           *)
TurnInv ==
  /\ pf["cmd"] # "none" => cmd = "play"
  /\ cmd = "play" => nx = "none" /\ av = "none"
  /\ pf["nx"] # "none" <=> nx = "play"
  /\ nx = "play" => av = "none"
  /\ cmd = "joinAv" => nx = "none"
  /\ cmd \in {"joinNext", "joinAv"} =>
       caller \in {"SrvStop", "SrvPlayFile", "SrvPlayDir", "SrvPlayHistory"}
  /\ nx # "none" => playtype = "DIR"
  /\ ms["cmd"] # "none" <=> cmd \in {"monitor", "mode"}

(* The input, at each place of playFile and of the playback.                *)
InInv ==
  /\ av = "run" => inActv # NULL /\ inOpen = {inActv}
  /\ av # "run" /\ (\A p \in Players : pf[p] = "none") => inOpen = {}
  /\ \A p \in Players :
       /\ pf[p] = "select" => inOpen = {}
       /\ pf[p] = "init" => inActv # NULL /\ inOpen = {}
       /\ pf[p] = "output" => inActv # NULL /\ inOpen = {inActv}
       /\ pf[p] = "finish" => inOpen = {} \/ (inActv # NULL /\ inOpen = {inActv})

DecInv ==
  sound # PICTURE /\ (av = "run" \/ \E p \in Players : pf[p] = "output") =>
    /\ decActv = IF sound \in loaded.decoder THEN sound ELSE NULL
    /\ decActv # NULL => decActv \in decOpen

(* An output is chosen before it is initialised, and a picture is hidden    *)
(* before the next is shown.                                                *)
ChosenInv ==
  /\ \A p \in Players : pf[p] \in {"init", "output"} => outActv # NULL
  /\ cmd = "slide" => ~imageShowed

IInv == TypeOK /\ TurnInv /\ InInv /\ DecInv /\ ChosenInv

(* What the steps of each part of the server leave alone.                   *)
PlayRest == UNCHANGED <<loaded, encVars, slideVars, recVars, monVars, modes, up>>
CommandRest == UNCHANGED <<loaded, encVars, slideVars, rec, monVars, modes, up>>
SlideRest == UNCHANGED <<loaded, inVars, encVars, playVars, recVars, monVars, modes, up>>
RecRest == UNCHANGED <<loaded, inVars, playVars, slideVars, monVars, modes, up>>
MonRest == UNCHANGED <<loaded, inVars, playVars, slideVars, recVars, up>>

PlaySteps(p) == \/ PlaySelect(p) \/ NotOurFile(p) \/ PlayInput(p) \/ PlayInputFails(p)
                \/ PlayOutput(p) \/ PlayOutputFails(p) \/ PlayFinish(p)

(* The steps that matter to the playback: its own, those that choose an     *)
(* output, and the others, of which only where cmd stands can matter.       *)
LEMMA StepCases ==
  ASSUME [Next]_vars
  PROVE  \/ PlayRest /\ \E p \in Players : PlaySteps(p)
         \/ PlayRest /\ (AvEnd \/ NextStop \/ NextJoin)
         \/ CommandRest /\ (SrvStop \/ StartPlay \/ JoinNext \/ JoinAv \/ SeekToMark)
         \/ SlideRest /\ (SrvSlideShowSetImage \/ SrvStartSlideShow \/ SlideOutput
                          \/ SrvStopSlideShow)
         \/ RecRest /\ (RecThreadsLeave \/ StartRecord \/ SrvStopRecord \/ RecJoin
                        \/ RecOpen \/ RecOpenFails \/ RecInput \/ RecInputFails)
         \/ MonRest /\ SetOutputMode
         \/ MonRest /\ UNCHANGED modes /\ (GcCheck \/ SrvStartMonitor \/ SrvStopMonitor)
         \/ /\ MonRest /\ UNCHANGED modes
            /\ \E p \in Starters : MonitorSelect(p) \/ MonitorInit(p)
         \/ SetInputMode
         \/ Crash
         \/ UNCHANGED vars
BY Zenon DEF Next, PlayFile, PlayThreads, PlayCommands, SlideShow, Recording, Monitoring,
   PlaySteps, PlayRest, CommandRest, SlideRest, RecRest, MonRest

-----------------------------------------------------------------------------
(* Types                                                                    *)

(* A playFile that comes to nothing keeps the types.                        *)
LEMMA RefusedTypes ==
  ASSUME StaticTypes, NEW p \in Players, Refused(p)
  PROVE  /\ pf' \in [Players -> {"none", "select", "init", "output", "finish"}]
         /\ nx' \in {"none", "wait", "join", "play"}
         /\ cmd' \in {cmd, "idle"} /\ caller' \in {caller, "none"}
BY DEF StaticTypes, Refused, Return, cmdVars

(* And the flag that it may clear stays a flag.                             *)
LEMMA RefusedFlag ==
  ASSUME FlagTypes, NEW p \in Players, Refused(p) PROVE going' \in BOOLEAN
BY DEF FlagTypes, Refused

(* Whoever chooses an output, and whichever, one stays chosen.              *)
LEMMA SelectKeeps ==
  ASSUME PluginTypes, NEW type, OutputSelect(type), outActv # NULL PROVE outActv' # NULL
BY NamesAssumption DEF PluginTypes, Lists, OutputSelect

(* The flags stay Booleans.                                                 *)
LEMMA FlagStep == FlagTypes /\ [Next]_vars => FlagTypes'
<1> SUFFICES ASSUME FlagTypes, [Next]_vars PROVE FlagTypes'
  OBVIOUS
<1> USE DEF FlagTypes, inVars, outVars, encVars, cmdVars, playVars, slideVars, recVars, monVars,
            PlayRest, CommandRest, SlideRest, RecRest, MonRest
<1>1. ASSUME NEW p \in Players, PlaySteps(p), PlayRest PROVE FlagTypes'
  BY <1>1, RefusedFlag
  DEF PlaySteps, PlaySelect, NotOurFile, PlayInput, PlayInputFails, PlayOutput, PlayOutputFails,
      PlayFinish
<1>2. ASSUME PlayRest, AvEnd \/ NextStop \/ NextJoin PROVE FlagTypes'
  BY <1>2 DEF AvEnd, NextStop, NextJoin
<1>3. ASSUME CommandRest, SrvStop \/ StartPlay \/ JoinNext \/ JoinAv \/ SeekToMark
      PROVE  FlagTypes'
  BY <1>3 DEF SrvStop, StartPlay, StopServer, JoinNext, JoinAv, SeekToMark
<1>4. ASSUME SlideRest,
             SrvSlideShowSetImage \/ SrvStartSlideShow \/ SlideOutput \/ SrvStopSlideShow
      PROVE  FlagTypes'
  BY <1>4 DEF SrvSlideShowSetImage, SrvStartSlideShow, SlideOutput, SrvStopSlideShow
<1>5. ASSUME RecRest, \/ RecThreadsLeave \/ StartRecord \/ SrvStopRecord \/ RecJoin
                      \/ RecOpen \/ RecOpenFails \/ RecInput \/ RecInputFails
      PROVE  FlagTypes'
  BY <1>5 DEF RecThreadsLeave, StartRecord, SrvStopRecord, RecJoin, RecOpen, RecOpenFails,
              RecInput, RecInputFails
<1>6. ASSUME MonRest, SetOutputMode \/ GcCheck \/ SrvStartMonitor \/ SrvStopMonitor
      PROVE  FlagTypes'
  BY <1>6 DEF SetOutputMode, GcCheck, SrvStartMonitor, SrvStopMonitor
<1>7. ASSUME MonRest, NEW p \in Starters, MonitorSelect(p) \/ MonitorInit(p) PROVE FlagTypes'
  BY <1>7 DEF MonitorSelect, MonitorInit, MonitorDone
<1>8. ASSUME UNCHANGED <<going, imageShowed, just_recorded, monitor>>, up' \in {up, FALSE}
      PROVE  FlagTypes'
  BY <1>8
<1>. QED
  BY StepCases, <1>1, <1>2, <1>3, <1>4, <1>5, <1>6, <1>7, <1>8 DEF SetInputMode, Crash, vars

(* What the wrappers keep has its types, whoever calls them.                *)
LEMMA PluginStep == PluginTypes /\ InInv /\ [Next]_vars => PluginTypes'
<1> SUFFICES ASSUME PluginTypes, InInv, [Next]_vars PROVE PluginTypes'
  OBVIOUS
<1> USE DEF PluginTypes, inVars, outVars, encVars, playVars, slideVars, recVars, monVars,
            PlayRest, CommandRest, SlideRest, RecRest, MonRest, OutputSelect
<1>1. ASSUME NEW p \in Players, PlaySteps(p), PlayRest PROVE PluginTypes'
  <2>1. CASE PlaySelect(p) \/ NotOurFile(p)
    BY <1>1, <2>1 DEF PlaySelect, InputIsOurFile, NotOurFile
  <2>2. CASE PlayInput(p)
    BY <1>1, <2>2 DEF PlayInput, InputInit, Lists, InInv
  <2>3. CASE PlayInputFails(p)
    BY <1>1, <2>3 DEF PlayInputFails, InputInitFails, InInv
  <2>4. CASE PlayOutput(p) \/ PlayOutputFails(p)
    BY <1>1, <2>4 DEF PlayOutput, OutputInit, PlayOutputFails
  <2>5. CASE PlayFinish(p)
    BY <1>1, <2>5 DEF PlayFinish, InputFinish
  <2>. QED BY <1>1, <2>1, <2>2, <2>3, <2>4, <2>5 DEF PlaySteps
<1>2. ASSUME PlayRest, AvEnd \/ NextStop \/ NextJoin PROVE PluginTypes'
  BY <1>2 DEF AvEnd, InputFinish, OutputFinish, NextStop, NextJoin
<1>3. ASSUME CommandRest, SrvStop \/ StartPlay \/ JoinNext \/ JoinAv \/ SeekToMark
      PROVE  PluginTypes'
  BY <1>3 DEF SrvStop, StartPlay, StopServer, JoinNext, JoinAv, SeekToMark
<1>4. ASSUME SlideRest,
             SrvSlideShowSetImage \/ SrvStartSlideShow \/ SlideOutput \/ SrvStopSlideShow
      PROVE  PluginTypes'
  BY <1>4, InstallationsAssumption
  DEF SrvSlideShowSetImage, SrvStartSlideShow, SlideOutput, OutputInit, SrvStopSlideShow,
      OutputFinish
<1>5. ASSUME RecRest, \/ RecThreadsLeave \/ StartRecord \/ SrvStopRecord \/ RecJoin
                      \/ RecInput \/ RecInputFails
      PROVE  PluginTypes'
  BY <1>5 DEF RecThreadsLeave, EncInputFinish, StartRecord, SrvStopRecord, RecJoin, RecInput,
              EncInputInit, RecInputFails
<1>6. ASSUME RecRest, RecOpen \/ RecOpenFails PROVE PluginTypes'
  BY <1>6, InstallationsAssumption
  DEF RecOpen, RecOpenFails, EncOutputIsOurFormat, EncInputSelect, Lists
<1>7. ASSUME MonRest, SetOutputMode \/ GcCheck \/ SrvStartMonitor \/ SrvStopMonitor
      PROVE  PluginTypes'
  BY <1>7 DEF SetOutputMode, GcCheck, SrvStartMonitor, SrvStopMonitor, EncInputFinish
<1>8. ASSUME MonRest, NEW p \in Starters, MonitorSelect(p) \/ MonitorInit(p)
      PROVE  PluginTypes'
  BY <1>8, InstallationsAssumption
  DEF MonitorSelect, MonitorInit, EncInputFinish, EncInputSelect, EncInputInit
<1>9. CASE SetInputMode \/ Crash \/ UNCHANGED vars
  BY <1>9 DEF SetInputMode, Crash, vars, pluginVars
<1>. QED
  BY StepCases, <1>1, <1>2, <1>3, <1>4, <1>5, <1>6, <1>7, <1>8, <1>9

(* The places of the threads and the other statics keep their types.        *)
LEMMA StaticStep == StaticTypes /\ TurnInv /\ [Next]_vars => StaticTypes'
<1> SUFFICES ASSUME StaticTypes, TurnInv, [Next]_vars PROVE StaticTypes'
  OBVIOUS
<1> USE DEF StaticTypes, inVars, outVars, encVars, cmdVars, playVars, slideVars, recVars, monVars,
            PlayRest, CommandRest, SlideRest, RecRest, MonRest, Return
<1>1. ASSUME NEW p \in Players, PlaySteps(p), PlayRest PROVE StaticTypes'
  <2>1. CASE PlaySelect(p) \/ NotOurFile(p) \/ PlayFinish(p)
    BY <1>1, <2>1, RefusedTypes DEF PlaySelect, NotOurFile, PlayFinish
  <2>2. CASE PlayInput(p) \/ PlayInputFails(p) \/ PlayOutputFails(p)
    BY <1>1, <2>2 DEF PlayInput, PlayInputFails, PlayOutputFails
  <2>3. CASE PlayOutput(p)
    BY <1>1, <2>3 DEF PlayOutput
  <2>. QED BY <1>1, <2>1, <2>2, <2>3 DEF PlaySteps
<1>2. ASSUME PlayRest, AvEnd \/ NextStop \/ NextJoin PROVE StaticTypes'
  BY <1>2 DEF AvEnd, NextStop, NextJoin
<1>3. ASSUME CommandRest, SrvStop \/ StartPlay \/ JoinNext \/ SeekToMark PROVE StaticTypes'
  BY <1>3 DEF SrvStop, StartPlay, StopServer, JoinNext, SeekToMark
<1>4. ASSUME CommandRest, JoinAv PROVE StaticTypes'
  <2>1. playtype' \in {"FILE", "DIR"}
    BY <1>4 DEF JoinAv, HasHistory, TurnInv
  <2>. QED BY <1>4, <2>1 DEF JoinAv
<1>5. ASSUME SlideRest,
             SrvSlideShowSetImage \/ SrvStartSlideShow \/ SlideOutput \/ SrvStopSlideShow
      PROVE  StaticTypes'
  BY <1>5 DEF SrvSlideShowSetImage, SrvStartSlideShow, SlideOutput, SrvStopSlideShow
<1>6. ASSUME RecRest, \/ RecThreadsLeave \/ StartRecord \/ SrvStopRecord \/ RecJoin
                      \/ RecOpen \/ RecOpenFails \/ RecInput \/ RecInputFails
      PROVE  StaticTypes'
  BY <1>6 DEF RecThreadsLeave, StartRecord, SrvStopRecord, RecJoin, RecOpen, RecOpenFails,
              RecInput, RecInputFails
<1>7. ASSUME MonRest, SetOutputMode \/ UNCHANGED modes,
             SetOutputMode \/ GcCheck \/ SrvStartMonitor \/ SrvStopMonitor
      PROVE  StaticTypes'
  <2>1. CASE SetOutputMode
    <3>1. modes' \in {"NTSC", "PAL"}
      BY <2>1, ModesAssumption DEF SetOutputMode
    <3>2. cmd' \in {"idle", "mode"}
      BY <2>1 DEF SetOutputMode, Called
    <3>3. ms' \in [Starters -> {"none", "start", "init"}]
      BY <2>1 DEF SetOutputMode, Starters
    <3>. QED BY <1>7, <2>1, <3>1, <3>2, <3>3 DEF SetOutputMode
  <2>2. CASE UNCHANGED modes /\ (GcCheck \/ SrvStartMonitor \/ SrvStopMonitor)
    BY <1>7, <2>2 DEF GcCheck, SrvStartMonitor, SrvStopMonitor, Starters
  <2>. QED BY <1>7, <2>1, <2>2
<1>8. ASSUME MonRest, UNCHANGED modes, NEW p \in Starters, MonitorSelect(p) \/ MonitorInit(p)
      PROVE  StaticTypes'
  BY <1>8 DEF MonitorSelect, MonitorInit, MonitorDone
<1>9. CASE SetInputMode
  BY <1>9, ModesAssumption DEF SetInputMode
<1>10. CASE Crash \/ UNCHANGED vars
  BY <1>10 DEF Crash, vars
<1>. QED
  BY StepCases, <1>1, <1>2, <1>3, <1>4, <1>5, <1>6, <1>7, <1>8, <1>9, <1>10

(* Every step keeps the types.                                              *)
LEMMA TypeStep == TypeOK /\ TurnInv /\ InInv /\ [Next]_vars => TypeOK'
BY FlagStep, PluginStep, StaticStep DEF TypeOK

-----------------------------------------------------------------------------
(* The invariant                                                            *)

(* A step outside the playback leaves the playback and the input alone, and *)
(* the command thread, if it moves it, not in a playback command.           *)
OtherStep ==
  /\ UNCHANGED <<loaded, inVars, playVars>>
  /\ ms["cmd"]' # "none" <=> cmd' \in {"monitor", "mode"}
  /\ \/ UNCHANGED cmdVars
     \/ cmd \notin {"joinNext", "joinAv", "play"} /\ cmd' \notin {"joinNext", "joinAv", "play"}

(* Every step is one of the playback or such a step.                        *)
LEMMA OtherSteps ==
  ASSUME StaticTypes, TurnInv, [Next]_vars
  PROVE  \/ PlayRest /\ \E p \in Players : PlaySteps(p)
         \/ PlayRest /\ (AvEnd \/ NextStop \/ NextJoin)
         \/ CommandRest /\ (SrvStop \/ StartPlay \/ JoinNext \/ JoinAv \/ SeekToMark)
         \/ OtherStep
<1> USE DEF StaticTypes, TurnInv, OtherStep, cmdVars, Return, Called
<1>1. ASSUME SlideRest,
             SrvSlideShowSetImage \/ SrvStartSlideShow \/ SlideOutput \/ SrvStopSlideShow
      PROVE  OtherStep
  BY <1>1
  DEF SlideRest, monVars, SrvSlideShowSetImage, SrvStartSlideShow, SlideOutput, SrvStopSlideShow
<1>2. ASSUME RecRest, \/ RecThreadsLeave \/ StartRecord \/ SrvStopRecord \/ RecJoin
                      \/ RecOpen \/ RecOpenFails \/ RecInput \/ RecInputFails
      PROVE  OtherStep
  BY <1>2 DEF RecRest, monVars, RecThreadsLeave, StartRecord, SrvStopRecord, RecJoin, RecOpen,
              RecOpenFails, RecInput, RecInputFails
<1>3. ASSUME MonRest, SetOutputMode \/ GcCheck \/ SrvStartMonitor \/ SrvStopMonitor
      PROVE  OtherStep
  BY <1>3
  DEF MonRest, SetOutputMode, Called, GcCheck, SrvStartMonitor, SrvStopMonitor, Starters,
      MutexFree
<1>4. ASSUME MonRest, NEW p \in Starters, MonitorSelect(p) \/ MonitorInit(p)
      PROVE  OtherStep
  BY <1>4 DEF MonRest, MonitorSelect, MonitorInit, MonitorDone, Starters
<1>5. ASSUME SetInputMode \/ Crash \/ UNCHANGED vars
      PROVE  OtherStep
  BY <1>5 DEF SetInputMode, Crash, vars, pluginVars, monVars
<1>. QED
  BY StepCases, <1>1, <1>2, <1>3, <1>4, <1>5

(* Only the thread whose turn it is enters playFile, and leaves it.         *)
LEMMA TurnStep == StaticTypes /\ TurnInv /\ [Next]_vars => TurnInv'
<1> SUFFICES ASSUME StaticTypes, TurnInv, [Next]_vars PROVE TurnInv'
  OBVIOUS
<1> USE DEF StaticTypes, TurnInv, cmdVars, playVars, Return, Players
<1>1. ASSUME NEW p \in Players, PlaySteps(p), PlayRest PROVE TurnInv'
  <2>1. CASE PlaySelect(p)
    BY <1>1, <2>1 DEF PlayRest, PlaySelect, Refused, monVars
  <2>2. CASE NotOurFile(p) \/ PlayFinish(p)
    BY <1>1, <2>2 DEF PlayRest, NotOurFile, PlayFinish, Refused, monVars
  <2>3. CASE PlayInput(p) \/ PlayInputFails(p) \/ PlayOutputFails(p)
    BY <1>1, <2>3 DEF PlayRest, PlayInput, PlayInputFails, PlayOutputFails, monVars
  <2>4. CASE PlayOutput(p)
    BY <1>1, <2>4 DEF PlayRest, PlayOutput, monVars
  <2>. QED BY <1>1, <2>1, <2>2, <2>3, <2>4 DEF PlaySteps
<1>2. ASSUME PlayRest, AvEnd \/ NextStop \/ NextJoin PROVE TurnInv'
  BY <1>2 DEF PlayRest, monVars, AvEnd, NextStop, NextJoin
<1>3. ASSUME CommandRest, SrvStop \/ StartPlay \/ JoinNext \/ JoinAv \/ SeekToMark
      PROVE  TurnInv'
  BY <1>3 DEF CommandRest, monVars, SrvStop, StartPlay, StopServer, Called, JoinNext, JoinAv,
              SeekToMark
<1>4. CASE OtherStep
  BY <1>4 DEF OtherStep
<1>. QED BY OtherSteps, <1>1, <1>2, <1>3, <1>4

(* The input is opened and closed by the one thread whose turn it is.       *)
LEMMA InputStep == TypeOK /\ TurnInv /\ InInv /\ [Next]_vars => InInv'
<1> SUFFICES ASSUME TypeOK, TurnInv, InInv, [Next]_vars PROVE InInv'
  OBVIOUS
<1> USE DEF TypeOK, StaticTypes, PluginTypes, TurnInv, InInv, inVars, playVars, Players
<1>1. ASSUME NEW p \in Players, PlaySteps(p) PROVE InInv'
  <2>1. CASE PlaySelect(p)
    BY <1>1, <2>1, NamesAssumption DEF PlaySelect, InputIsOurFile, Refused
  <2>2. CASE NotOurFile(p)
    BY <1>1, <2>2 DEF NotOurFile, Refused
  <2>3. CASE PlayInput(p)
    BY <1>1, <2>3 DEF PlayInput, InputInit
  <2>4. CASE PlayInputFails(p)
    BY <1>1, <2>4 DEF PlayInputFails, InputInitFails
  <2>5. CASE PlayOutput(p)
    BY <1>1, <2>5 DEF PlayOutput
  <2>6. CASE PlayOutputFails(p)
    BY <1>1, <2>6 DEF PlayOutputFails
  <2>7. CASE PlayFinish(p)
    BY <1>1, <2>7 DEF PlayFinish, InputFinish, Refused
  <2>. QED BY <1>1, <2>1, <2>2, <2>3, <2>4, <2>5, <2>6, <2>7 DEF PlaySteps
<1>2. ASSUME AvEnd \/ NextStop \/ NextJoin PROVE InInv'
  BY <1>2 DEF AvEnd, InputFinish, NextStop, NextJoin, AvGone
<1>3. ASSUME SrvStop \/ StartPlay \/ JoinNext \/ JoinAv \/ SeekToMark PROVE InInv'
  BY <1>3 DEF SrvStop, StartPlay, StopServer, Called, JoinNext, JoinAv, AvGone, SeekToMark
<1>4. CASE OtherStep
  BY <1>4 DEF OtherStep
<1>. QED BY OtherSteps, <1>1, <1>2, <1>3, <1>4

(* The decoder is the one of the file whose input is open.                  *)
LEMMA DecoderStep == TypeOK /\ TurnInv /\ DecInv /\ [Next]_vars => DecInv'
<1> SUFFICES ASSUME TypeOK, TurnInv, DecInv, [Next]_vars PROVE DecInv'
  OBVIOUS
<1> USE DEF TypeOK, StaticTypes, PluginTypes, TurnInv, DecInv, inVars, playVars, Players
<1>1. ASSUME NEW p \in Players, PlaySteps(p), PlayRest PROVE DecInv'
  <2>1. CASE PlaySelect(p)
    BY <1>1, <2>1 DEF PlaySelect, PlayRest, Refused
  <2>2. CASE NotOurFile(p)
    BY <1>1, <2>2 DEF NotOurFile, PlayRest, Refused
  <2>3. CASE PlayInput(p)
    BY <1>1, <2>3, NamesAssumption DEF PlayInput, PlayRest, InputInit, Lists
  <2>4. CASE PlayInputFails(p)
    BY <1>1, <2>4 DEF PlayInputFails, PlayRest, InputInitFails
  <2>5. CASE PlayOutput(p)
    BY <1>1, <2>5 DEF PlayOutput, PlayRest
  <2>6. CASE PlayOutputFails(p)
    BY <1>1, <2>6 DEF PlayOutputFails, PlayRest
  <2>7. CASE PlayFinish(p)
    BY <1>1, <2>7 DEF PlayFinish, PlayRest, InputFinish, Refused
  <2>. QED BY <1>1, <2>1, <2>2, <2>3, <2>4, <2>5, <2>6, <2>7 DEF PlaySteps
<1>2. ASSUME PlayRest, AvEnd \/ NextStop \/ NextJoin PROVE DecInv'
  BY <1>2 DEF PlayRest, AvEnd, InputFinish, NextStop, NextJoin, AvGone
<1>3. ASSUME CommandRest, SrvStop \/ StartPlay \/ JoinNext \/ JoinAv \/ SeekToMark PROVE DecInv'
  BY <1>3
  DEF CommandRest, SrvStop, StartPlay, StopServer, Called, JoinNext, JoinAv, AvGone, SeekToMark
<1>4. CASE OtherStep
  BY <1>4 DEF OtherStep
<1>. QED BY OtherSteps, <1>1, <1>2, <1>3, <1>4

(* The daemon starts in the invariant.                                      *)
LEMMA InitInv == Init => IInv
<1> SUFFICES ASSUME Init PROVE IInv
  OBVIOUS
<1> USE DEF Init, PluginLoad, NothingOpen
<1>1. PluginTypes
  BY InstallationsAssumption DEF PluginTypes
<1>2. FlagTypes /\ StaticTypes
  BY DEF FlagTypes, StaticTypes
<1>3. TurnInv /\ InInv /\ DecInv /\ ChosenInv
  BY DEF TurnInv, InInv, DecInv, ChosenInv, Players, Starters
<1>. QED BY <1>1, <1>2, <1>3 DEF IInv, TypeOK

(* Nobody loses the choice of an output, and nothing is shown over a picture. *)
LEMMA ChosenStep == TypeOK /\ TurnInv /\ ChosenInv /\ [Next]_vars => ChosenInv'
<1> SUFFICES ASSUME TypeOK, TurnInv, ChosenInv, [Next]_vars PROVE ChosenInv'
  OBVIOUS
<1> USE DEF TypeOK, StaticTypes, PluginTypes, TurnInv, ChosenInv, outVars, playVars, cmdVars,
            slideVars, Players, Return
<1>1. ASSUME NEW p \in Players, PlaySteps(p), PlayRest PROVE ChosenInv'
  <2> USE <1>1 DEF PlayRest
  <2>1. CASE PlaySelect(p)
    BY <2>1, NamesAssumption DEF PlaySelect, InputIsOurFile, OutputSelect, Refused, Lists
  <2>2. CASE NotOurFile(p) \/ PlayFinish(p)
    BY <2>2 DEF NotOurFile, PlayFinish, Refused
  <2>3. CASE PlayInput(p) \/ PlayInputFails(p) \/ PlayOutputFails(p)
    BY <2>3 DEF PlayInput, PlayInputFails, PlayOutputFails
  <2>4. CASE PlayOutput(p)
    BY <2>4 DEF PlayOutput, OutputInit
  <2>. QED BY <2>1, <2>2, <2>3, <2>4 DEF PlaySteps
<1>2. ASSUME PlayRest, AvEnd \/ NextStop \/ NextJoin PROVE ChosenInv'
  BY <1>2 DEF PlayRest, AvEnd, OutputFinish, NextStop, NextJoin
<1>3. ASSUME CommandRest, SrvStop \/ StartPlay \/ JoinNext \/ JoinAv \/ SeekToMark
      PROVE  ChosenInv'
  BY <1>3 DEF CommandRest, SrvStop, StartPlay, StopServer, JoinNext, JoinAv, SeekToMark
<1>4. ASSUME SlideRest,
             SrvSlideShowSetImage \/ SrvStartSlideShow \/ SlideOutput \/ SrvStopSlideShow
      PROVE  ChosenInv'
  BY <1>4, SelectKeeps
  DEF SlideRest, SrvSlideShowSetImage, SrvStartSlideShow, SlideOutput, OutputInit,
      SrvStopSlideShow, OutputFinish, Called
<1>5. ASSUME UNCHANGED <<loaded, playVars, slideVars>>, cmd' = "slide" => cmd = "slide",
             UNCHANGED outActv \/ OutputSelect(MULTIMEDIA)
      PROVE  ChosenInv'
  BY <1>5, SelectKeeps
<1>6. ASSUME RecRest, \/ RecThreadsLeave \/ StartRecord \/ SrvStopRecord \/ RecJoin
                      \/ RecOpen \/ RecOpenFails \/ RecInput \/ RecInputFails
      PROVE  ChosenInv'
  BY <1>5, <1>6 DEF RecRest, RecThreadsLeave, StartRecord, SrvStopRecord, RecJoin, RecOpen,
              RecOpenFails, RecInput, RecInputFails
<1>7. ASSUME MonRest, SetOutputMode \/ GcCheck \/ SrvStartMonitor \/ SrvStopMonitor
      PROVE  ChosenInv'
  BY <1>5, <1>7 DEF MonRest, SetOutputMode, GcCheck, SrvStartMonitor, SrvStopMonitor
<1>8. ASSUME MonRest, NEW p \in Starters, MonitorSelect(p) \/ MonitorInit(p) PROVE ChosenInv'
  BY <1>5, <1>8 DEF MonRest, MonitorSelect, MonitorInit, MonitorDone
<1>9. CASE SetInputMode \/ Crash \/ UNCHANGED vars
  BY <1>5, <1>9 DEF SetInputMode, Crash, vars, pluginVars
<1>. QED
  BY StepCases, <1>1, <1>2, <1>3, <1>4, <1>6, <1>7, <1>8, <1>9

(* Every step keeps the invariant.                                          *)
LEMMA InvStep == IInv /\ [Next]_vars => IInv'
BY TypeStep, TurnStep, InputStep, DecoderStep, ChosenStep DEF IInv, TypeOK

(* The inductive invariant of the server: whose turn it is to play, and what *)
(* is open meanwhile.                                                       *)
THEOREM Invariance == Spec => []IInv
<1>1. Init => IInv
  BY InitInv
<1>2. IInv /\ [Next]_vars => IInv'
  BY InvStep
<1>. QED BY <1>1, <1>2, PTL DEF Spec

(* The plugins' pointers, the statics and the threads keep their types.     *)
THEOREM TypeCorrect == Spec => []TypeOK
<1>1. IInv => TypeOK
  BY DEF IInv
<1>. QED BY <1>1, Invariance, PTL

(* An input plugin is open for the one thread that uses it, or not at all.  *)
THEOREM InputOwnedHolds == Spec => []InputOwned
<1>1. IInv => InputOwned
  BY DEF IInv, TypeOK, StaticTypes, TurnInv, InInv, InputOwned, Using, Players
<1>. QED BY <1>1, Invariance, PTL

(* Sound is decoded by the initialised decoder of its codec or by none.     *)
THEOREM DecoderFitsHolds == Spec => []DecoderFits
<1>1. IInv => DecoderFits
  BY DEF IInv, DecInv, DecoderFits
<1>. QED BY <1>1, Invariance, PTL

-----------------------------------------------------------------------------
(* The output                                                               *)

(* Nobody but its user disturbs the output, but for a choice while it is    *)
(* in use.                                                                  *)
LEMMA OutputStep ==
  ASSUME IInv, OutputOwned, outActv' = outActv \/ (\A t \in Types : outUser[t] = "nobody"),
         [Next]_vars
  PROVE  OutputOwned'
<1> PluginTypes /\ TurnInv /\ StaticTypes /\ ChosenInv
  BY DEF IInv, TypeOK
<1> USE DEF OutputOwned, PluginTypes
<1>1. ASSUME UNCHANGED <<outUser, av, imageShowed>> PROVE OutputOwned'
  BY <1>1
<1>2. ASSUME NEW p \in Players, PlaySteps(p), PlayRest PROVE OutputOwned'
  <2>1. CASE PlaySelect(p) \/ NotOurFile(p) \/ PlayFinish(p)
    BY <1>1, <1>2, <2>1 DEF PlayRest, slideVars, outVars, PlaySelect, NotOurFile, PlayFinish
  <2>2. CASE PlayInput(p) \/ PlayInputFails(p) \/ PlayOutputFails(p)
    BY <1>1, <1>2, <2>2
    DEF PlayRest, slideVars, outVars, PlayInput, PlayInputFails, PlayOutputFails
  <2>3. CASE PlayOutput(p)
    BY <1>2, <2>3 DEF PlayRest, slideVars, PlayOutput, OutputInit, OutputFree, ChosenInv
  <2>. QED BY <1>2, <2>1, <2>2, <2>3 DEF PlaySteps
<1>3. ASSUME PlayRest, AvEnd PROVE OutputOwned'
  BY <1>3 DEF PlayRest, slideVars, AvEnd, OutputFinish
<1>4. ASSUME PlayRest, NextStop \/ NextJoin PROVE OutputOwned'
  BY <1>4 DEF PlayRest, slideVars, outVars, NextStop, NextJoin, AvGone
<1>5. ASSUME CommandRest, SrvStop \/ StartPlay \/ JoinNext \/ JoinAv \/ SeekToMark
      PROVE  OutputOwned'
  BY <1>5 DEF CommandRest, slideVars, outVars, playVars, SrvStop, StartPlay, StopServer, JoinNext,
              JoinAv, AvGone, SeekToMark
<1>6. ASSUME SlideRest, SrvSlideShowSetImage PROVE OutputOwned'
  BY <1>1, <1>6 DEF SlideRest, playVars, outVars, SrvSlideShowSetImage
<1>7. ASSUME SlideRest, SrvStartSlideShow PROVE OutputOwned'
  BY <1>7 DEF SlideRest, playVars, SrvStartSlideShow
<1>8. ASSUME SlideRest, SlideOutput PROVE OutputOwned'
  BY <1>8 DEF SlideRest, playVars, outVars, SlideOutput, OutputInit, OutputFree, ChosenInv
<1>9. ASSUME SlideRest, SrvStopSlideShow PROVE OutputOwned'
  BY <1>9 DEF SlideRest, playVars, SrvStopSlideShow, OutputFinish
<1>10. ASSUME RecRest, \/ RecThreadsLeave \/ StartRecord \/ SrvStopRecord \/ RecJoin
                       \/ RecOpen \/ RecOpenFails \/ RecInput \/ RecInputFails
       PROVE  OutputOwned'
  BY <1>1, <1>10 DEF RecRest, playVars, slideVars, outVars, RecThreadsLeave, StartRecord,
              SrvStopRecord, RecJoin, RecOpen, RecOpenFails, RecInput, RecInputFails
<1>11. ASSUME MonRest, SetOutputMode \/ GcCheck \/ SrvStartMonitor \/ SrvStopMonitor
       PROVE  OutputOwned'
  BY <1>1, <1>11 DEF MonRest, playVars, slideVars, outVars, SetOutputMode, GcCheck,
              SrvStartMonitor, SrvStopMonitor
<1>12. ASSUME MonRest, NEW p \in Starters, MonitorSelect(p) \/ MonitorInit(p)
       PROVE  OutputOwned'
  BY <1>1, <1>12 DEF MonRest, playVars, slideVars, outVars, MonitorSelect, MonitorInit
<1>13. CASE SetInputMode \/ Crash \/ UNCHANGED vars
  BY <1>1, <1>13 DEF SetInputMode, Crash, vars, pluginVars, outVars, playVars, slideVars
<1>. QED
  BY StepCases, <1>2, <1>3, <1>4, <1>5, <1>6, <1>7, <1>8, <1>9, <1>10, <1>11, <1>12, <1>13

(* Whoever uses the output keeps it, and leaves it to the next, unless       *)
(* another plugin is chosen while one is in use.                            *)
THEOREM OutputKeptHolds == Spec => OutputKept
<1>1. IInv /\ [Next]_vars =>
        [OutputOwned /\ (outActv' = outActv \/ \A t \in Types : outUser[t] = "nobody")
           => OutputOwned']_vars
  BY OutputStep
<1>. QED BY Invariance, <1>1, PTL DEF Spec, OutputKept

-----------------------------------------------------------------------------
(* Server implements Playback                                               *)

(* The input is as far as avLoop is.                                        *)
PhaseIs ==
  /\ av = "none" => Phase = "closed"
  /\ av = "run" => Phase = "open"
  /\ av = "done" => Phase = "over"

(* That is what the invariant says of it.                                   *)
LEMMA PhaseInv == IInv => PhaseIs
<1> SUFFICES ASSUME IInv PROVE PhaseIs
  OBVIOUS
<1>1. ASSUME av = "run" PROVE inOpen # {}
  BY <1>1 DEF IInv, InInv
<1>2. ASSUME av = "done" PROVE inOpen = {}
  BY <1>2 DEF IInv, TypeOK, StaticTypes, InInv, TurnInv, Players
<1>. QED BY <1>1, <1>2, Zenon DEF PhaseIs, Phase

(* What Playback calls stopping.                                            *)
Stopping == cmd = "joinAv" \/ nx = "join"

(* What a step of the server is to the playback: nothing, or one step of it. *)
LEMMA PlaybackStep ==
  ASSUME TypeOK, TurnInv, [Next]_vars
  PROVE  \/ av' = av /\ Stopping' = Stopping
         \/ av = "none" /\ av' = "run" /\ ~Stopping /\ ~Stopping'
         \/ av = "run" /\ av' = "done" /\ Stopping' = Stopping
         \/ av' = av /\ ~Stopping /\ Stopping'
         \/ av # "run" /\ av' = "none" /\ Stopping /\ ~Stopping'
<1> USE DEF TypeOK, StaticTypes, TurnInv, Stopping, cmdVars, Return, Players
<1>1. ASSUME NEW p \in Players, PlaySteps(p)
      PROVE  \/ av' = av /\ Stopping' = Stopping
             \/ av = "none" /\ av' = "run" /\ ~Stopping /\ ~Stopping'
  <2>1. CASE PlaySelect(p) \/ NotOurFile(p) \/ PlayFinish(p)
    BY <1>1, <2>1 DEF PlaySelect, NotOurFile, PlayFinish, Refused
  <2>2. CASE PlayInput(p) \/ PlayInputFails(p) \/ PlayOutputFails(p)
    BY <1>1, <2>2 DEF PlayInput, PlayInputFails, PlayOutputFails
  <2>3. CASE PlayOutput(p)
    BY <1>1, <2>3 DEF PlayOutput
  <2>. QED BY <1>1, <2>1, <2>2, <2>3 DEF PlaySteps
<1>2. ASSUME AvEnd PROVE av = "run" /\ av' = "done" /\ Stopping' = Stopping
  BY <1>2 DEF AvEnd
<1>3. ASSUME NextStop \/ JoinNext PROVE av' = av /\ ~Stopping /\ Stopping'
  BY <1>3 DEF NextStop, JoinNext
<1>4. ASSUME NextJoin \/ JoinAv PROVE av # "run" /\ av' = "none" /\ Stopping /\ ~Stopping'
  BY <1>4 DEF NextJoin, JoinAv, AvGone
<1>5. ASSUME SrvStop \/ StartPlay \/ SeekToMark PROVE av' = av /\ Stopping' = Stopping
  BY <1>5 DEF SrvStop, StartPlay, StopServer, Called, SeekToMark, playVars
<1>6. ASSUME OtherStep PROVE av' = av /\ Stopping' = Stopping
  BY <1>6 DEF OtherStep, playVars
<1>. QED BY OtherSteps, <1>1, <1>2, <1>3, <1>4, <1>5, <1>6

(* The playback as the rest of the server sees it is that of Playback,      *)
(* whichever output its media go to.                                        *)
THEOREM ServerImplementsPlayback == Spec => ImplementsPlayback
<1>1. Init => Abstract!Init
  BY Zenon DEF Init, Abstract!Init, Phase, Starters
<1>2. IInv /\ PhaseIs /\ PhaseIs' /\ IInv' /\ [Next]_vars => [Abstract!Next]_(Abstract!vars)
  <2> SUFFICES ASSUME IInv, PhaseIs, PhaseIs', IInv', [Next]_vars
               PROVE  [Abstract!Next]_(Abstract!vars)
    OBVIOUS
  <2>1. TypeOK /\ TurnInv /\ av \in {"none", "run", "done"} /\ av' \in {"none", "run", "done"}
    BY DEF IInv, TypeOK, StaticTypes
  <2>. QED
    BY <2>1, PlaybackStep
    DEF PhaseIs, Stopping, Abstract!Next, Abstract!Play, Abstract!End, Abstract!Stop,
        Abstract!Stopped, Abstract!vars
<1>3. IInv => PhaseIs
  BY PhaseInv
<1>. QED
  BY <1>1, <1>2, <1>3, Invariance, PTL DEF Spec, ImplementsPlayback, Abstract!Spec

=============================================================================
