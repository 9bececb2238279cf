--------------------------- MODULE RecorderProofs ---------------------------
(***************************************************************************)
(* Proofs about Recorder, for every value of its constants.  What concerns *)
(* the plugins holds until SrvRecord fails with its threads running (late): *)
(* it closes the plugins then, and the threads close them once more when   *)
(* they leave.  What concerns the threads and mbuf holds then as well      *)
(* (LateInv).                                                              *)
(***************************************************************************)
EXTENDS Recorder, TLAPS

-----------------------------------------------------------------------------
(* The inductive invariant, by parts                                        *)

Setup == {"createAudio", "createVideo", "recInput"}

(* The threads of this recording, and the labels of a thread that has given *)
(* notice of its end (LoopExit).                                            *)
Created == (mdesc \cap {"audio"}) \cup {"video"}
Past == {"stopServer", "stopBcast", "done", "none"}

ThreadInv ==
  /\ \A t \in Streams : t \in thread <=> pc[t] # "none"
  /\ "audio" \in thread => "audio" \in mdesc

PlugInv ==
  /\ encIn \in {"closed", "started"} /\ encOut \in {"closed", "open"}
  /\ encOut = "open" <=>
       encIn = "started" \/ cmd \in Setup \cup {"recControls", "bail1"}
  /\ encIn = "started" =>
       cmd \in {"idle", "pauseBcast", "recBcast", "stopBcast", "joinAudio", "joinVideo"}

CmdInv ==
  /\ cmd \in {"stopBcast", "joinAudio", "joinVideo", "recOpen", "recControls"} => ~going
  /\ cmd # "bail2"
  /\ cmd = "joinVideo" => "audio" \notin thread
  /\ cmd \in {"recOpen", "recControls", "createAudio"} => thread = {}
  /\ cmd = "createVideo" => thread = mdesc \cap {"audio"}
  /\ cmd = "recInput" => thread = Created
  /\ cmd \in Setup => going /\ stopped = {}
  /\ cmd \in Setup \cup {"recControls"} => mdesc # {}
  /\ cmd \in {"bail1", "bail"} => "video" \notin thread
  /\ going /\ encIn = "closed" =>
       cmd \in Setup \cup {"bail1", "bail"} /\ \A t \in Streams : ready[t]

(* While the input runs, some thread has yet to close it.                   *)
RunInv ==
  encIn = "started" =>
    /\ mdesc # {} /\ stopped \subseteq Streams
    /\ \A t \in Created : t \in stopped <=> pc[t] \in Past
    /\ \E t \in Created : pc[t] \notin {"stopBcast", "done", "none"}
    /\ going /\ "video" \notin mdesc => ready["video"]

(* Once it is closed, no thread may close it again.                         *)
ClosedInv ==
  encIn = "closed" /\ stopped # STOPPED /\ cmd # "recInput" =>
    "video" \notin thread /\ "video" \notin stopped

PcInv ==
  \A t \in Streams :
    /\ pc[t] \in {"get", "filled", "sync", "synced", "failed"} =>
         encIn = "started" /\ t \in mdesc
    /\ pc[t] \in {"failed", "exit", "stopServer", "stopBcast", "done"} => ~going
    /\ pc[t] \in {"loop", "wait", "get", "sync", "synced", "failed"} =>
         ready[t] \/ ~held[t]

IInv ==
  /\ TypeOK /\ ThreadInv /\ PlugInv /\ CmdInv /\ RunInv /\ ClosedInv /\ PcInv
  /\ MbufNotShared /\ NoStall /\ NoLostWakeup

-----------------------------------------------------------------------------
(* Types                                                                    *)

(* preCommitChecks returns one of the four codes its comment lists.         *)
LEMMA CheckRange ==
  ASSUME NEW c, NEW f PROVE preCommitChecks(c, f) \in 0..3
BY DEF preCommitChecks

(* unsigned int arithmetic stays within its width.                          *)
LEMMA UIntRange ==
  ASSUME NEW x \in Int PROVE UInt(x) \in 0..(UIntMod - 1)
BY NumbersAssumption DEF UInt

(* An unsigned long long holds 0 at least.                                  *)
LEMMA WidthPositive == 0 \in 0..(UIntMod * UIntMod - 1)
<1>1. \A m \in Nat \ {0} : m * m >= 1
  OBVIOUS
<1>. QED BY <1>1, NumbersAssumption

(* What avsync_save_frame computes before it saves a frame.                 *)
LEMMA SaveTypes ==
  ASSUME TypeOK
  PROVE  /\ NextStream \in Streams
         /\ FrameTs \in Int
         /\ PausedAfter \in 0..3
         /\ TimeoffsetAfter \in Int
<1>1. NextStream \in Streams
  BY DEF NextStream, Streams
<1>2. FrameTs \in Int
  <2>1. HackBase \in Int
    BY NumbersAssumption DEF TypeOK, HackBase, Streams
  <2>. QED BY <1>1, <2>1, NumbersAssumption DEF TypeOK, FrameTs
<1>3. PausedAfter \in 0..3
  BY DEF TypeOK, PausedAfter, TO_PAUSE, PAUSE, TO_UNPAUSE, UNPAUSE
<1>4. TimeoffsetAfter \in Int
  BY <1>2 DEF TypeOK, TimeoffsetAfter
<1>. QED BY <1>1, <1>2, <1>3, <1>4

(* The CL_HACK counters, and the label bail of avsync_save_frame.           *)
LEMMA HackTypes ==
  ASSUME TypeOK, HackStep
  PROVE  anumber' \in 0..2 /\ atsms' \in Int /\ adelta' \in Int
BY NumbersAssumption DEF TypeOK, HackStep, Streams

(* The label bail hands the frame back and keeps the types.                 *)
LEMMA PutBackTypes ==
  ASSUME TypeOK, PutBack(NextStream)
  PROVE  /\ held' \in [Streams -> BOOLEAN] /\ ready' \in [Streams -> BOOLEAN]
         /\ encIn' \in {"closed", "inited", "started", "bad"}
         /\ UNCHANGED <<tsms, size, clock>>
BY SaveTypes DEF TypeOK, PutBack

(* Every step keeps the types.                                              *)
LEMMA TypeStep == TypeOK /\ [Next]_vars => TypeOK'
<1> SUFFICES ASSUME TypeOK, [Next]_vars PROVE TypeOK'
  OBVIOUS
<1> USE DEF TypeOK, syncVars, pauseVars, frameVars, fileVars, dataVars, plugVars,
            sessionVars, cmdVars
<1>1. ASSUME NEW t \in Streams, GetBuffer(t) PROVE TypeOK'
  <2> DEFINE Frames ==
        /\ tsms \in [Streams -> Int] /\ size \in [Streams -> 0..(UIntMod - 1)]
        /\ clock \in [Streams -> Nat] /\ held \in [Streams -> BOOLEAN]
        /\ pc \in [Streams -> WorkerLabels]
  <2>1. Frames'
    <3>1. ASSUME NEW ts \in (clock[t] + 1)..LastTs, NEW sz \in FrameSizes
          PROVE  ts \in Nat /\ sz \in 0..(UIntMod - 1)
      BY <3>1, NumbersAssumption
    <3>2. CASE UNCHANGED frameVars
      BY <1>1, <3>2 DEF GetBuffer, WorkerLabels
    <3>3. ASSUME NEW ts \in (clock[t] + 1)..LastTs, NEW sz \in FrameSizes,
                 tsms'  = [tsms EXCEPT ![t] = ts], size'  = [size EXCEPT ![t] = sz],
                 clock' = [clock EXCEPT ![t] = ts], held'  = [held EXCEPT ![t] = TRUE],
                 pc'    = [pc EXCEPT ![t] = "filled"]
          PROVE  Frames'
      BY <3>1, <3>3 DEF WorkerLabels
    <3> HIDE DEF Frames
    <3>. QED BY <1>1, <3>2, <3>3 DEF GetBuffer
  <2>. QED BY <1>1, <2>1 DEF GetBuffer
<1>2. ASSUME NEW t \in Streams, SyncPaused(t) PROVE TypeOK'
  BY <1>2, SaveTypes, HackTypes, PutBackTypes DEF SyncPaused, WorkerLabels
<1>3. ASSUME NEW t \in Streams, SyncRefused(t) PROVE TypeOK'
  <2>1. finalization' \in 0..(UIntMod - 1) /\ lastRecError' \in 0..4
    <3>1. PICK fin \in Finalizations :
             finalization' = fin /\ lastRecError' = preCommitChecks(size[NextStream], fin)
      BY <1>3 DEF SyncRefused
    <3>. QED BY <3>1, CheckRange, NumbersAssumption
  <2>. QED BY <1>3, <2>1, SaveTypes, HackTypes, PutBackTypes DEF SyncRefused, WorkerLabels
<1>4. ASSUME NEW t \in Streams, SyncCommit(t) PROVE TypeOK'
  <2>1. finalization' \in 0..(UIntMod - 1)
    BY <1>4, NumbersAssumption DEF SyncCommit
  <2>2. recordingSize' \in 0..(UIntMod - 1)
    BY <1>4, SaveTypes, UIntRange, NumbersAssumption DEF SyncCommit
  <2>3. timestamp' \in Int /\ committed' \in Int
    BY <1>4, SaveTypes DEF SyncCommit
  <2>4. paused' \in 0..3 /\ timeoffset' \in Int
    BY <1>4, SaveTypes DEF SyncCommit
  <2>5. encOut' \in {"closed", "open", "bad"} /\ lastRecError' \in 0..4
    BY <1>4 DEF SyncCommit
  <2>8. going' \in BOOLEAN
    BY <1>4 DEF SyncCommit
  <2>6. pc' \in [Streams -> WorkerLabels]
    BY <1>4 DEF SyncCommit, WorkerLabels
  <2>7. HackStep /\ PutBack(NextStream)
    BY <1>4 DEF SyncCommit
  <2>. QED BY <1>4, <2>1, <2>2, <2>3, <2>4, <2>5, <2>6, <2>7,
           <2>8, HackTypes, PutBackTypes DEF SyncCommit
<1>5. CASE CreateAudio
  <2>1. CASE "audio" \in mdesc
    BY <1>5, <2>1 DEF CreateAudio, Create, Streams, CommandLabels, WorkerLabels
  <2>2. CASE "audio" \notin mdesc
    BY <1>5, <2>2 DEF CreateAudio, Streams, CommandLabels
  <2>. QED BY <2>1, <2>2
<1>6. ASSUME NEW t \in Streams, LoopWait(t) PROVE TypeOK'
  BY <1>6 DEF LoopWait, WorkerLabels
<1>7. ASSUME NEW t \in Streams, LoopNext(t) PROVE TypeOK'
  BY <1>7 DEF LoopNext, WorkerLabels
<1>8. ASSUME NEW t \in Streams, SpuriousWakeup(t) PROVE TypeOK'
  BY <1>8 DEF SpuriousWakeup, WorkerLabels
<1>9. ASSUME NEW t \in Streams, MarkReady(t) PROVE TypeOK'
  BY <1>9 DEF MarkReady, WorkerLabels
<1>10. ASSUME NEW t \in Streams, SyncSkip(t) PROVE TypeOK'
  BY <1>10 DEF SyncSkip, WorkerLabels
<1>11. ASSUME NEW t \in Streams, SyncReturn(t) PROVE TypeOK'
  BY <1>11 DEF SyncReturn, Woken, WorkerLabels
<1>12. ASSUME NEW t \in Streams, LoopExit(t) PROVE TypeOK'
  BY <1>12 DEF LoopExit, STOPPED, Streams, WorkerLabels
<1>13. ASSUME NEW t \in Streams, StopServer(t) PROVE TypeOK'
  <2>1. CASE stopped # STOPPED /\ MayFinish
    <3>1. clock' \in [Streams -> Nat] /\ held' \in [Streams -> BOOLEAN]
      <4>1. NoFrames
        BY <1>13, <2>1 DEF StopServer
      <4>. QED BY <4>1 DEF NoFrames
    <3>2. stopped' \in SUBSET STOPPED /\ pc' \in [Streams -> WorkerLabels]
      BY <1>13, <2>1 DEF StopServer, STOPPED, WorkerLabels
    <3>3. encIn' \in {"closed", "bad"} /\ encOut' \in {"closed", "bad"}
      BY <1>13, <2>1 DEF StopServer, Finished
    <3>. QED BY <1>13, <2>1, <3>1, <3>2, <3>3 DEF StopServer
  <2>2. CASE ~(stopped # STOPPED /\ MayFinish)
    BY <1>13, <2>2 DEF StopServer, WorkerLabels
  <2>. QED BY <2>1, <2>2
<1>14. ASSUME NEW t \in Streams, StopBroadcast(t) PROVE TypeOK'
  BY <1>14 DEF StopBroadcast, Woken, WorkerLabels
<1>15. CASE SrvRecord \/ SrvStopRecord
  BY <1>15 DEF SrvRecord, SrvStopRecord, CommandStop, CommandLabels
<1>16. CASE \E p \in 0..1 : SrvPauseRecord(p)
  BY <1>16 DEF SrvPauseRecord, TO_PAUSE, TO_UNPAUSE, CommandLabels
<1>17. CASE StopRecordBroadcast
  BY <1>17 DEF StopRecordBroadcast, Woken, CommandLabels, WorkerLabels
<1>18. CASE CommandBroadcast
  BY <1>18 DEF CommandBroadcast, Woken, CommandLabels, WorkerLabels
<1>19. CASE JoinAudio
  BY <1>19 DEF JoinAudio, Join, Streams, CommandLabels, WorkerLabels
<1>20. CASE JoinVideo
  BY <1>20 DEF JoinVideo, Join, Streams, CommandLabels, WorkerLabels
<1>21. CASE RecUnsupported
  BY <1>21, NumbersAssumption DEF RecUnsupported, RecReset, Streams, CommandLabels
<1>22. CASE RecInitFails
  BY <1>22, MediasAssumption, NumbersAssumption DEF RecInitFails, RecReset, Streams, 
         CommandLabels
<1>23. CASE RecStartFails
  BY <1>23, MediasAssumption, NumbersAssumption DEF RecStartFails, RecReset, Streams, 
         CommandLabels
<1>24. CASE RecOpen
  BY <1>24, MediasAssumption, NumbersAssumption DEF RecOpen, RecReset, 
         CommandLabels
<1>25. CASE RecControls
  BY <1>25 DEF RecControls, UNPAUSE, RUNNING, CommandLabels
<1>26. CASE CreateVideo
  BY <1>26 DEF CreateVideo, Create, Streams, CommandLabels, WorkerLabels
<1>27. CASE RecInput
  BY <1>27 DEF RecInput, NoFrames, CommandLabels
<1>28. CASE RecInputFails
  BY <1>28 DEF RecInputFails, CommandLabels
<1>29. CASE Bail2
  BY <1>29 DEF Bail2, Finished, CommandLabels
<1>30. CASE Bail1
  BY <1>30 DEF Bail1, Finished, CommandLabels
<1>31. CASE Bail
  BY <1>31 DEF Bail, CommandLabels
<1>32. CASE UNCHANGED vars
  BY <1>32 DEF vars
<1>. QED
  BY
     <1>1, <1>2, <1>3, <1>4, <1>5, <1>6, <1>7, <1>8, <1>9, <1>10, <1>11, <1>12,
     <1>13, <1>14, <1>15, <1>16, <1>17, <1>18, <1>19, <1>20, <1>21, <1>22,
     <1>23, <1>24, <1>25, <1>26, <1>27, <1>28, <1>29, <1>30, <1>31, <1>32
  DEF Next, Call, Continue, Worker, Sync

(* The static initialisers are of their types.                              *)
LEMMA TypeInit == Init => TypeOK
<1> SUFFICES ASSUME Init PROVE TypeOK
  OBVIOUS
<1> USE DEF Init, Streams
<1>5. stopped \in SUBSET STOPPED
  OBVIOUS
<1>6. going \in BOOLEAN
  OBVIOUS
<1>7. ready \in [Streams -> BOOLEAN] /\ held \in [Streams -> BOOLEAN]
  OBVIOUS
<1>1. paused \in 0..3
  BY DEF UNPAUSE
<1>2. /\ tsms \in [Streams -> Int] /\ size \in [Streams -> 0..(UIntMod - 1)]
      /\ clock \in [Streams -> Nat] /\ pc \in [Streams -> WorkerLabels]
  BY NumbersAssumption DEF WorkerLabels
<1>3. /\ recordingSize \in 0..(UIntMod - 1) /\ finalization \in 0..(UIntMod - 1)
      /\ diskFreeSpace \in 0..(UIntMod * UIntMod - 1)
  BY NumbersAssumption, WidthPositive
<1>4. cmd \in CommandLabels /\ thread \in SUBSET Streams /\ mdesc \in SUBSET Streams
  BY DEF CommandLabels
<1>. QED BY <1>1, <1>2, <1>3, <1>4, <1>5, <1>6, <1>7 DEF TypeOK

(* The statics, frames and threads of the recorder keep their types.        *)
THEOREM TypeCorrect == Spec => []TypeOK
<1>. QED BY TypeInit, TypeStep, PTL DEF Spec

-----------------------------------------------------------------------------
(* The inductive invariant                                                  *)

(* The static initialisers satisfy the invariant.                           *)
LEMMA InitInv == Init => IInv
<1> SUFFICES ASSUME Init PROVE IInv
  OBVIOUS
<1> USE DEF Init, Streams, STOPPED
<1>1. TypeOK
  BY TypeInit
<1>2. ThreadInv /\ PlugInv /\ CmdInv
  BY DEF ThreadInv, PlugInv, CmdInv, Setup
<1>3. RunInv /\ ClosedInv /\ PcInv
  BY DEF RunInv, ClosedInv, PcInv
<1>4. MbufNotShared /\ NoStall /\ NoLostWakeup
  BY DEF MbufNotShared, NoStall, NoLostWakeup
<1>. QED BY <1>1, <1>2, <1>3, <1>4 DEF IInv

(* One step per action.  The parts of the invariant lean on each other (no  *)
(* thread closes the plugins twice because RunInv and PcInv say who is      *)
(* left), so each action keeps them together.                               *)
LEMMA InvStep == IInv /\ ~late' /\ [Next]_vars => IInv'
<1> DEFINE Parts ==
      /\ ThreadInv /\ PlugInv /\ CmdInv /\ RunInv /\ ClosedInv /\ PcInv
      /\ MbufNotShared /\ NoStall /\ NoLostWakeup
<1> SUFFICES ASSUME IInv, ~late', [Next]_vars PROVE Parts'
  BY TypeStep DEF IInv
<1>0. TypeOK /\ TypeOK' /\ Parts
  BY TypeStep DEF IInv
<1> USE <1>0 DEF TypeOK, Streams, ThreadInv, PlugInv, CmdInv, RunInv, ClosedInv, PcInv,
      MbufNotShared, NoStall, NoLostWakeup, BroadcastPending, Setup, Created, Past,
      syncVars, pauseVars, frameVars, fileVars, dataVars, plugVars, sessionVars, cmdVars
<1>1. ASSUME NEW t \in Streams, LoopWait(t) PROVE Parts'
  BY <1>1 DEF LoopWait
<1>2. ASSUME NEW t \in Streams, LoopNext(t) PROVE Parts'
  BY <1>2 DEF LoopNext
<1>3. ASSUME NEW t \in Streams, SpuriousWakeup(t) PROVE Parts'
  BY <1>3 DEF SpuriousWakeup
<1>4. ASSUME NEW t \in Streams, GetBuffer(t) PROVE Parts'
  BY <1>4 DEF GetBuffer
<1>5. ASSUME NEW t \in Streams, MarkReady(t) PROVE Parts'
  BY <1>5 DEF MarkReady
<1>6. ASSUME NEW t \in Streams, SyncSkip(t) PROVE Parts'
  BY <1>6 DEF SyncSkip, BothReady
<1>7. ASSUME NEW t \in Streams, SyncPaused(t) PROVE Parts'
  BY <1>7 DEF SyncPaused, PutBack, NextStream, BothReady
<1>8. ASSUME NEW t \in Streams, SyncRefused(t) PROVE Parts'
  BY <1>8 DEF SyncRefused, PutBack, NextStream, BothReady
<1>9. ASSUME NEW t \in Streams, SyncCommit(t) PROVE Parts'
  BY <1>9 DEF SyncCommit, PutBack, NextStream, BothReady
<1>10. ASSUME NEW t \in Streams, SyncReturn(t) PROVE Parts'
  BY <1>10 DEF SyncReturn, Woken
<1>11. ASSUME NEW t \in Streams, LoopExit(t) PROVE Parts'
  BY <1>11 DEF LoopExit, STOPPED
<1>12. ASSUME NEW t \in Streams, StopServer(t) PROVE Parts'
  <2>1. ThreadInv' /\ PlugInv' /\ CmdInv'
    BY <1>12 DEF StopServer, Finished, MayFinish, STOPPED, AV_STOP
  <2>2. RunInv'
    <3>1. CASE stopped # STOPPED /\ MayFinish
      BY <1>12, <3>1 DEF StopServer, Finished, MayFinish, STOPPED, AV_STOP
    <3>2. CASE ~(stopped # STOPPED /\ MayFinish) /\ encIn = "started"
      <4> DEFINE u == IF t = "audio" THEN "video" ELSE "audio"
      <4>1. "audio" \in mdesc /\ stopped # AV_STOP
        BY <3>2 DEF STOPPED, MayFinish
      <4>2. t \in stopped
        BY <1>12, <3>2, <4>1 DEF StopServer
      <4>3. u \notin stopped
        <5>1. SUFFICES ASSUME u \in stopped PROVE FALSE
          OBVIOUS
        <5>2. stopped \subseteq AV_STOP
          BY <3>2 DEF AV_STOP
        <5>3. AV_STOP \subseteq stopped
          BY <4>2, <5>1 DEF AV_STOP
        <5>. QED BY <4>1, <5>2, <5>3
      <4>4. u \in Created /\ u # t /\ pc[u] \notin Past
        BY <3>2, <4>1, <4>3
      <4>5. UNCHANGED <<encIn, stopped, going, ready, mdesc>> /\ pc'[u] = pc[u]
        BY <1>12, <3>2, <4>4 DEF StopServer
      <4>6. /\ pc[t] = "stopServer" /\ pc'[t] \in {"stopBcast", "done"}
            /\ \A v \in Streams : v = t \/ v = u
        BY <1>12 DEF StopServer
      <4>. QED BY <3>2, <4>4, <4>5, <4>6
    <3>3. CASE encIn # "started"
      BY <1>12, <3>3 DEF StopServer, Finished, MayFinish, STOPPED, AV_STOP
    <3>. QED BY <3>1, <3>2, <3>3
  <2>3. ClosedInv' /\ PcInv'
    BY <1>12 DEF StopServer, Finished, MayFinish, STOPPED, AV_STOP
  <2>4. MbufNotShared' /\ NoStall' /\ NoLostWakeup'
    BY <1>12 DEF StopServer, Finished, MayFinish, STOPPED, AV_STOP
  <2>. QED BY <2>1, <2>2, <2>3, <2>4
<1>13. ASSUME NEW t \in Streams, StopBroadcast(t) PROVE Parts'
  BY <1>13 DEF StopBroadcast, Woken
<1>14. CASE SrvRecord
  BY <1>14 DEF SrvRecord, CommandStop
<1>15. CASE SrvStopRecord
  BY <1>15 DEF SrvStopRecord, CommandStop
<1>16. CASE \E p \in 0..1 : SrvPauseRecord(p)
  BY <1>16 DEF SrvPauseRecord, TO_PAUSE, TO_UNPAUSE
<1>17. CASE StopRecordBroadcast
  BY <1>17 DEF StopRecordBroadcast, Woken
<1>18. CASE JoinAudio
  BY <1>18 DEF JoinAudio, Join
<1>19. CASE JoinVideo
  BY <1>19 DEF JoinVideo, Join
<1>20. CASE CommandBroadcast
  BY <1>20 DEF CommandBroadcast, Woken
<1>21. CASE RecUnsupported
  BY <1>21 DEF RecUnsupported, RecReset
<1>22. CASE RecInitFails
  BY <1>22, MediasAssumption DEF RecInitFails, RecReset
<1>23. CASE RecStartFails
  BY <1>23, MediasAssumption DEF RecStartFails, RecReset
<1>24. CASE RecOpen
  BY <1>24, MediasAssumption DEF RecOpen, RecReset
<1>25. CASE RecControls
  BY <1>25 DEF RecControls, RUNNING, STOPPED
<1>26. CASE CreateAudio
  <2>1. CASE "audio" \in mdesc
    <3>1. ThreadInv' /\ PlugInv'
      BY <1>26, <2>1 DEF CreateAudio, Create
    <3>4. CmdInv'
      <4>1. thread = {} /\ going /\ stopped = {} /\ encIn = "closed"
            /\ mdesc # {} /\ \A t \in Streams : ready[t]
        BY <1>26, <2>1 DEF CreateAudio
      <4>2. UNCHANGED <<going, stopped, ready, encIn, mdesc>>
        BY <1>26, <2>1 DEF CreateAudio, Create
      <4>3. \/ cmd' = "createVideo" /\ thread' = {"audio"}
            \/ cmd' = "bail1" /\ thread' = {}
        BY <1>26, <2>1, <4>1 DEF CreateAudio, Create
      <4>. QED BY <2>1, <4>1, <4>2, <4>3
    <3>2. RunInv' /\ ClosedInv' /\ PcInv'
      BY <1>26, <2>1 DEF CreateAudio, Create
    <3>3. MbufNotShared' /\ NoStall' /\ NoLostWakeup'
      BY <1>26, <2>1 DEF CreateAudio, Create
    <3>. QED BY <3>1, <3>2, <3>3, <3>4
  <2>2. CASE "audio" \notin mdesc
    <3>1. thread = {} /\ UNCHANGED <<syncVars, pc, dataVars, plugVars, sessionVars, caller, thread>>
      BY <1>26, <2>2 DEF CreateAudio
    <3>2. ThreadInv' /\ PlugInv'
      BY <1>26, <2>2, <3>1 DEF CreateAudio
    <3>3. CmdInv'
      BY <1>26, <2>2, <3>1 DEF CreateAudio
    <3>4. RunInv' /\ ClosedInv' /\ PcInv'
      BY <1>26, <2>2, <3>1 DEF CreateAudio
    <3>5. MbufNotShared' /\ NoStall' /\ NoLostWakeup'
      BY <1>26, <2>2, <3>1 DEF CreateAudio
    <3>. QED BY <3>2, <3>3, <3>4, <3>5
  <2>. QED BY <2>1, <2>2
<1>27. CASE CreateVideo
  BY <1>27 DEF CreateVideo, Create
<1>28. CASE RecInput
  <2>1. ThreadInv' /\ PlugInv' /\ CmdInv'
    BY <1>28 DEF RecInput, NoFrames, STOPPED
  <2>2. RunInv' /\ ClosedInv' /\ PcInv'
    BY <1>28 DEF RecInput, NoFrames, STOPPED
  <2>3. MbufNotShared' /\ NoLostWakeup'
    BY <1>28 DEF RecInput
  <2>4. NoStall'
    <3>1. PICK s \in mdesc : s \in Streams
      BY <1>28 DEF RecInput
    <3>2. ~ready'[s] /\ s \in mdesc'
      BY <1>28, <3>1 DEF RecInput
    <3>. QED BY <3>2
  <2>. QED BY <2>1, <2>2, <2>3, <2>4
<1>29. CASE RecInputFails
  BY <1>29 DEF RecInputFails
<1>30. CASE Bail2
  BY <1>30 DEF Bail2, Finished
<1>31. CASE Bail1
  BY <1>31 DEF Bail1, Finished
<1>32. CASE Bail
  BY <1>32 DEF Bail
<1>33. CASE UNCHANGED vars
  BY <1>33 DEF vars
<1> HIDE DEF Parts
<1>. QED
  BY
     <1>1, <1>2, <1>3, <1>4, <1>5, <1>6, <1>7, <1>8, <1>9, <1>10, <1>11, <1>12,
     <1>13, <1>14, <1>15, <1>16, <1>17, <1>18, <1>19, <1>20, <1>21, <1>22,
     <1>23, <1>24, <1>25, <1>26, <1>27, <1>28, <1>29, <1>30, <1>31, <1>32,
     <1>33
  DEF Next, Call, Continue, Worker, Sync

(* Late is late for ever.                                                   *)
LEMMA LateKept == ASSUME [Next]_vars, late PROVE late'
BY DEF Next, Call, Continue, Worker, Sync, sessionVars, vars,
   LoopWait, LoopNext, SpuriousWakeup, GetBuffer, MarkReady, SyncSkip, SyncPaused,
   SyncRefused, SyncCommit, SyncReturn, LoopExit, StopServer, StopBroadcast, SrvRecord,
   SrvStopRecord, CommandStop, SrvPauseRecord, StopRecordBroadcast, JoinAudio, JoinVideo, Join,
   CommandBroadcast, RecUnsupported, RecInitFails, RecStartFails, RecOpen, RecControls,
   CreateAudio, CreateVideo, Create, RecInput, RecInputFails, Bail2, Bail1, Bail

(* The invariant holds until a recording fails late.                        *)
THEOREM Invariance == Spec => [](~late => IInv)
<1>1. Init => (~late => IInv)
  BY InitInv
<1>2. (~late => IInv) /\ [Next]_vars => (~late => IInv)'
  BY InvStep, LateKept
<1>. QED BY <1>1, <1>2, PTL DEF Spec

-----------------------------------------------------------------------------
(* After a late failure                                                     *)

(* What is left of the invariant when EncInputInit or EncInputStart fails:  *)
(* the plugins may be closed twice, which the input plugin does not recover *)
(* from here, but the threads keep their order and their wake-ups.          *)
LateCmdInv ==
  /\ cmd \in {"stopBcast", "joinAudio", "joinVideo", "recOpen", "recControls"} => ~going
  /\ cmd = "joinVideo" => "audio" \notin thread
  /\ cmd \in {"recOpen", "recControls", "createAudio"} => thread = {}
  /\ cmd = "createVideo" => thread = mdesc \cap {"audio"}
  /\ cmd = "recInput" => thread = Created
  /\ cmd \in Setup \cup {"recControls"} => mdesc # {}
  /\ cmd \in Setup => going /\ stopped = {}
  /\ cmd \in Setup =>
       \A t \in Streams : ready[t] /\ pc[t] \in {"none", "loop", "wait"}
  /\ encIn = "started" =>
       cmd \in {"idle", "pauseBcast", "recBcast", "stopBcast", "joinAudio", "joinVideo"}

LatePcInv ==
  \A t \in Streams :
    /\ encIn = "started" /\ pc[t] \in {"get", "filled", "sync", "synced", "failed"} =>
         t \in mdesc
    /\ pc[t] \in {"failed", "exit", "stopServer", "stopBcast", "done"} => ~going

LateInv ==
  /\ TypeOK /\ ThreadInv /\ LateCmdInv /\ RunInv /\ LatePcInv
  /\ MbufNotShared /\ NoStall /\ NoLostWakeup

(* The static initialisers satisfy it.                                      *)
LEMMA LateInit == Init => LateInv
<1>1. Init => LateCmdInv /\ LatePcInv
  BY DEF Init, LateCmdInv, LatePcInv, Setup
<1>. QED BY <1>1, InitInv DEF IInv, LateInv

(* One step per action, as above.                                           *)
LEMMA LateStep == LateInv /\ [Next]_vars => LateInv'
<1> DEFINE LateParts ==
      /\ ThreadInv /\ LateCmdInv /\ RunInv /\ LatePcInv
      /\ MbufNotShared /\ NoStall /\ NoLostWakeup
<1> SUFFICES ASSUME LateInv, [Next]_vars PROVE LateParts'
  BY TypeStep DEF LateInv
<1>0. TypeOK /\ TypeOK' /\ LateParts
  BY TypeStep DEF LateInv
<1> USE <1>0 DEF TypeOK, Streams, ThreadInv, LateCmdInv, RunInv, LatePcInv,
      MbufNotShared, NoStall, NoLostWakeup, BroadcastPending, Setup, Created, Past,
      syncVars, pauseVars, frameVars, fileVars, dataVars, plugVars, sessionVars, cmdVars
<1>1. ASSUME NEW t \in Streams, LoopWait(t) PROVE LateParts'
  BY <1>1 DEF LoopWait
<1>2. ASSUME NEW t \in Streams, LoopNext(t) PROVE LateParts'
  BY <1>2 DEF LoopNext
<1>3. ASSUME NEW t \in Streams, SpuriousWakeup(t) PROVE LateParts'
  BY <1>3 DEF SpuriousWakeup
<1>4. ASSUME NEW t \in Streams, GetBuffer(t) PROVE LateParts'
  BY <1>4 DEF GetBuffer
<1>5. ASSUME NEW t \in Streams, MarkReady(t) PROVE LateParts'
  BY <1>5 DEF MarkReady
<1>6. ASSUME NEW t \in Streams, SyncSkip(t) PROVE LateParts'
  BY <1>6 DEF SyncSkip, BothReady
<1>7. ASSUME NEW t \in Streams, SyncPaused(t) PROVE LateParts'
  BY <1>7 DEF SyncPaused, PutBack, NextStream, BothReady
<1>8. ASSUME NEW t \in Streams, SyncRefused(t) PROVE LateParts'
  BY <1>8 DEF SyncRefused, PutBack, NextStream, BothReady
<1>9. ASSUME NEW t \in Streams, SyncCommit(t) PROVE LateParts'
  BY <1>9 DEF SyncCommit, PutBack, NextStream, BothReady
<1>10. ASSUME NEW t \in Streams, SyncReturn(t) PROVE LateParts'
  BY <1>10 DEF SyncReturn, Woken
<1>11. ASSUME NEW t \in Streams, LoopExit(t) PROVE LateParts'
  BY <1>11 DEF LoopExit, STOPPED
<1>12. ASSUME NEW t \in Streams, StopServer(t) PROVE LateParts'
  <2>1. ThreadInv' /\ LateCmdInv'
    BY <1>12 DEF StopServer, Finished, MayFinish, STOPPED, AV_STOP
  <2>2. RunInv'
    <3>1. CASE stopped # STOPPED /\ MayFinish
      BY <1>12, <3>1 DEF StopServer, Finished, MayFinish, STOPPED, AV_STOP
    <3>2. CASE ~(stopped # STOPPED /\ MayFinish) /\ encIn = "started"
      <4> DEFINE u == IF t = "audio" THEN "video" ELSE "audio"
      <4>1. "audio" \in mdesc /\ stopped # AV_STOP
        BY <3>2 DEF STOPPED, MayFinish
      <4>2. t \in stopped
        BY <1>12, <3>2, <4>1 DEF StopServer
      <4>3. u \notin stopped
        <5>1. SUFFICES ASSUME u \in stopped PROVE FALSE
          OBVIOUS
        <5>2. stopped \subseteq AV_STOP
          BY <3>2 DEF AV_STOP
        <5>3. AV_STOP \subseteq stopped
          BY <4>2, <5>1 DEF AV_STOP
        <5>. QED BY <4>1, <5>2, <5>3
      <4>4. u \in Created /\ u # t /\ pc[u] \notin Past
        BY <3>2, <4>1, <4>3
      <4>5. UNCHANGED <<encIn, stopped, going, ready, mdesc>> /\ pc'[u] = pc[u]
        BY <1>12, <3>2, <4>4 DEF StopServer
      <4>6. /\ pc[t] = "stopServer" /\ pc'[t] \in {"stopBcast", "done"}
            /\ \A v \in Streams : v = t \/ v = u
        BY <1>12 DEF StopServer
      <4>. QED BY <3>2, <4>4, <4>5, <4>6
    <3>3. CASE encIn # "started"
      BY <1>12, <3>3 DEF StopServer, Finished, MayFinish, STOPPED, AV_STOP
    <3>. QED BY <3>1, <3>2, <3>3
  <2>3. LatePcInv'
    BY <1>12 DEF StopServer, Finished, MayFinish, STOPPED, AV_STOP
  <2>4. MbufNotShared' /\ NoStall' /\ NoLostWakeup'
    BY <1>12 DEF StopServer, Finished, MayFinish, STOPPED, AV_STOP
  <2>. QED BY <2>1, <2>2, <2>3, <2>4
<1>13. ASSUME NEW t \in Streams, StopBroadcast(t) PROVE LateParts'
  BY <1>13 DEF StopBroadcast, Woken
<1>14. CASE SrvRecord
  BY <1>14 DEF SrvRecord, CommandStop
<1>15. CASE SrvStopRecord
  BY <1>15 DEF SrvStopRecord, CommandStop
<1>16. CASE \E p \in 0..1 : SrvPauseRecord(p)
  BY <1>16 DEF SrvPauseRecord, TO_PAUSE, TO_UNPAUSE
<1>17. CASE StopRecordBroadcast
  BY <1>17 DEF StopRecordBroadcast, Woken
<1>18. CASE JoinAudio
  BY <1>18 DEF JoinAudio, Join
<1>19. CASE JoinVideo
  BY <1>19 DEF JoinVideo, Join
<1>20. CASE CommandBroadcast
  BY <1>20 DEF CommandBroadcast, Woken
<1>21. CASE RecUnsupported
  BY <1>21 DEF RecUnsupported, RecReset
<1>22. CASE RecInitFails
  BY <1>22, MediasAssumption DEF RecInitFails, RecReset
<1>23. CASE RecStartFails
  BY <1>23, MediasAssumption DEF RecStartFails, RecReset
<1>24. CASE RecOpen
  BY <1>24, MediasAssumption DEF RecOpen, RecReset
<1>25. CASE RecControls
  BY <1>25 DEF RecControls, RUNNING, STOPPED
<1>26. CASE CreateAudio
  <2>1. CASE "audio" \in mdesc
    <3>1. ThreadInv'
      BY <1>26, <2>1 DEF CreateAudio, Create
    <3>4. LateCmdInv'
      <4>1. thread = {} /\ going /\ stopped = {} /\ encIn # "started"
            /\ mdesc # {} /\ \A t \in Streams : ready[t]
        BY <1>26, <2>1 DEF CreateAudio
      <4>2. UNCHANGED <<going, stopped, ready, encIn, mdesc>>
        BY <1>26, <2>1 DEF CreateAudio, Create
      <4>3. \/ cmd' = "createVideo" /\ thread' = {"audio"}
            \/ cmd' = "bail1" /\ thread' = {}
        BY <1>26, <2>1, <4>1 DEF CreateAudio, Create
      <4>4. \A t \in Streams : pc'[t] \in {"none", "loop", "wait"}
        BY <1>26, <2>1 DEF CreateAudio, Create
      <4>. QED BY <2>1, <4>1, <4>2, <4>3, <4>4
    <3>2. RunInv' /\ LatePcInv'
      BY <1>26, <2>1 DEF CreateAudio, Create
    <3>3. MbufNotShared' /\ NoStall' /\ NoLostWakeup'
      BY <1>26, <2>1 DEF CreateAudio, Create
    <3>. QED BY <3>1, <3>2, <3>3, <3>4
  <2>2. CASE "audio" \notin mdesc
    <3>1. thread = {} /\ UNCHANGED <<syncVars, pc, dataVars, plugVars, sessionVars, caller, thread>>
      BY <1>26, <2>2 DEF CreateAudio
    <3>2. ThreadInv'
      BY <1>26, <2>2, <3>1 DEF CreateAudio
    <3>3. LateCmdInv'
      BY <1>26, <2>2, <3>1 DEF CreateAudio
    <3>4. RunInv' /\ LatePcInv'
      BY <1>26, <2>2, <3>1 DEF CreateAudio
    <3>5. MbufNotShared' /\ NoStall' /\ NoLostWakeup'
      BY <1>26, <2>2, <3>1 DEF CreateAudio
    <3>. QED BY <3>2, <3>3, <3>4, <3>5
  <2>. QED BY <2>1, <2>2
<1>27. CASE CreateVideo
  BY <1>27 DEF CreateVideo, Create
<1>28. CASE RecInput
  <2>1. ThreadInv' /\ LateCmdInv'
    BY <1>28 DEF RecInput, NoFrames, STOPPED
  <2>2. RunInv' /\ LatePcInv'
    BY <1>28 DEF RecInput, NoFrames, STOPPED
  <2>3. MbufNotShared' /\ NoLostWakeup'
    BY <1>28 DEF RecInput
  <2>4. NoStall'
    <3>1. PICK s \in mdesc : s \in Streams
      BY <1>28 DEF RecInput
    <3>2. ~ready'[s] /\ s \in mdesc'
      BY <1>28, <3>1 DEF RecInput
    <3>. QED BY <3>2
  <2>. QED BY <2>1, <2>2, <2>3, <2>4
<1>29. CASE RecInputFails
  BY <1>29 DEF RecInputFails
<1>30. CASE Bail2
  BY <1>30 DEF Bail2, Finished
<1>31. CASE Bail1
  BY <1>31 DEF Bail1, Finished
<1>32. CASE Bail
  BY <1>32 DEF Bail
<1>33. CASE UNCHANGED vars
  BY <1>33 DEF vars
<1> HIDE DEF LateParts
<1>. QED
  BY
     <1>1, <1>2, <1>3, <1>4, <1>5, <1>6, <1>7, <1>8, <1>9, <1>10, <1>11, <1>12,
     <1>13, <1>14, <1>15, <1>16, <1>17, <1>18, <1>19, <1>20, <1>21, <1>22,
     <1>23, <1>24, <1>25, <1>26, <1>27, <1>28, <1>29, <1>30, <1>31, <1>32,
     <1>33
  DEF Next, Call, Continue, Worker, Sync

(* It holds throughout, whatever fails.                                     *)
THEOREM LateInvariance == Spec => []LateInv
<1>. QED BY LateInit, LateStep, PTL DEF Spec

-----------------------------------------------------------------------------
(* What follows, for every behaviour of the recorder                        *)

(* The plugins are never called out of turn: stop_server finishes each of   *)
(* them once, after the last frame, in every interleaving.                  *)
THEOREM PluginProtocolHolds == Spec => []PluginProtocol
<1>1. (~late => IInv) => PluginProtocol
  BY DEF IInv, PlugInv, PluginProtocol
<1>. QED BY Invariance, <1>1, PTL

(* mbuf is filled without the mutex, and still never read while being filled, *)
(* whatever step of SrvRecord fails.                                        *)
THEOREM MbufNotSharedHolds == Spec => []MbufNotShared
<1>1. LateInv => MbufNotShared
  BY DEF LateInv
<1>. QED BY LateInvariance, <1>1, PTL

(* The two threads never wait for each other.                               *)
THEOREM NoStallHolds == Spec => []NoStall
<1>1. LateInv => NoStall
  BY DEF LateInv
<1>. QED BY LateInvariance, <1>1, PTL

(* No wake-up is lost although every broadcast follows its unlock.          *)
THEOREM NoLostWakeupHolds == Spec => []NoLostWakeup
<1>1. LateInv => NoLostWakeup
  BY DEF LateInv
<1>. QED BY LateInvariance, <1>1, PTL

(* SrvStopRecord leaves no thread, no open file and no running input.       *)
THEOREM ClosedAfterStopHolds == Spec => []ClosedAfterStop
<1>1. ASSUME IInv, cmd = "recOpen" \/ (cmd = "idle" /\ thread = {})
      PROVE  /\ thread = {} /\ ~going /\ \A t \in Streams : pc[t] = "none"
             /\ encIn = "closed" /\ encOut = "closed"
  <2>1. thread = {} /\ \A t \in Streams : pc[t] = "none"
    BY <1>1 DEF IInv, CmdInv, ThreadInv
  <2>2. encIn = "closed"
    BY <1>1, <2>1 DEF IInv, PlugInv, RunInv, Created, Streams
  <2>. QED BY <1>1, <2>1, <2>2 DEF IInv, PlugInv, CmdInv, Setup
<1>2. (~late => IInv) => ClosedAfterStop
  BY <1>1 DEF ClosedAfterStop
<1>. QED BY Invariance, <1>2, PTL

=============================================================================
