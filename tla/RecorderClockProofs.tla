------------------------ MODULE RecorderClockProofs ------------------------
(***************************************************************************)
(* Proofs about what the recorder writes: the action properties of         *)
(* Recorder, for every value of its constants, on top of the invariant of  *)
(* RecorderProofs.  A clock never runs backwards here: EncInputGetBuffer   *)
(* stamps the frames of one stream in the order of their capture.          *)
(***************************************************************************)
EXTENDS RecorderProofs

(* What SrvRecord sets up under the mutex is still so when it releases the  *)
(* threads: nobody can call SrvPauseRecord, and no thread can save, before. *)
CtrlInv ==
  /\ committed >= -1
  /\ cmd \in Setup =>
       timestamp = 0 /\ timeoffset = 0 /\ paused = UNPAUSE /\ committed = -1

(* Once a frame was committed, or as soon as a stream holds one, the frame  *)
(* in its half of mbuf is the last it captured, and not older than the last *)
(* one committed.                                                           *)
OrderInv ==
  encIn = "started" =>
    \A t \in mdesc :
      ready[t] \/ pc[t] \in {"filled", "sync"} \/ committed >= 0 =>
        tsms[t] = clock[t] /\ committed <= tsms[t]

(* The books of a recording of one stream s: out of a pause the record time *)
(* lags its clock by timeoffset; in a pause timeoffset holds what is to be  *)
(* completed by the clock when the pause ends.                              *)
TimeInv ==
  encIn = "started" /\ mdesc # Streams =>
    /\ timestamp <= committed \/ timestamp = 0
    /\ \A s \in mdesc :
         /\ paused \in {UNPAUSE, TO_PAUSE} =>
              0 <= timeoffset /\ timestamp + timeoffset <= clock[s]
         /\ paused \in {PAUSE, TO_UNPAUSE} =>
              timestamp + timeoffset <= 0 /\ 0 <= timeoffset + clock[s]

ClockInv == CtrlInv /\ OrderInv /\ TimeInv

-----------------------------------------------------------------------------
(* The books of the recorder                                                *)

(* The static initialisers satisfy the invariant.                           *)
LEMMA ClockInit == Init => ClockInv
BY DEF Init, ClockInv, CtrlInv, OrderInv, TimeInv, Setup

(* One step per action.                                                     *)
LEMMA ClockStep == IInv /\ ~late' /\ ClockInv /\ [Next]_vars => ClockInv'
<1> SUFFICES ASSUME IInv, ~late', ClockInv, [Next]_vars PROVE ClockInv'
  OBVIOUS
<1> USE DEF IInv, TypeOK, Streams, PlugInv, PcInv, ClockInv, CtrlInv, OrderInv, TimeInv, Setup,
      UNPAUSE, TO_PAUSE, PAUSE, TO_UNPAUSE,
      syncVars, pauseVars, frameVars, fileVars, dataVars, plugVars, sessionVars, cmdVars
<1>1. ASSUME NEW t \in Streams, LoopWait(t) PROVE ClockInv'
  BY <1>1 DEF LoopWait
<1>2. ASSUME NEW t \in Streams, LoopNext(t) PROVE ClockInv'
  BY <1>2 DEF LoopNext
<1>3. ASSUME NEW t \in Streams, SpuriousWakeup(t) PROVE ClockInv'
  BY <1>3 DEF SpuriousWakeup
<1>4. ASSUME NEW t \in Streams, GetBuffer(t) PROVE ClockInv'
  BY <1>4 DEF GetBuffer
<1>5. ASSUME NEW t \in Streams, MarkReady(t) PROVE ClockInv'
  BY <1>5 DEF MarkReady
<1>6. ASSUME NEW t \in Streams, SyncSkip(t) PROVE ClockInv'
  BY <1>6 DEF SyncSkip
<1>7. ASSUME NEW t \in Streams, SyncPaused(t) PROVE ClockInv'
  BY <1>7 DEF SyncPaused, PutBack, BothReady, NextStream, FrameTs, HackApplies,
         PausedAfter, TimeoffsetAfter
<1>8. ASSUME NEW t \in Streams, SyncRefused(t) PROVE ClockInv'
  BY <1>8 DEF SyncRefused, PutBack, BothReady, NextStream, FrameTs, HackApplies,
         PausedAfter, TimeoffsetAfter
<1>9. ASSUME NEW t \in Streams, SyncCommit(t) PROVE ClockInv'
  BY <1>9 DEF SyncCommit, PutBack, BothReady, NextStream, FrameTs, HackApplies,
         PausedAfter, TimeoffsetAfter
<1>10. ASSUME NEW t \in Streams, SyncReturn(t) PROVE ClockInv'
  BY <1>10 DEF SyncReturn, Woken
<1>11. ASSUME NEW t \in Streams, LoopExit(t) PROVE ClockInv'
  BY <1>11 DEF LoopExit
<1>12. ASSUME NEW t \in Streams, StopServer(t) PROVE ClockInv'
  BY <1>12 DEF StopServer, NoFrames, Finished
<1>13. ASSUME NEW t \in Streams, StopBroadcast(t) PROVE ClockInv'
  BY <1>13 DEF StopBroadcast, Woken
<1>14. CASE SrvRecord \/ SrvStopRecord
  BY <1>14 DEF SrvRecord, SrvStopRecord, CommandStop
<1>15. CASE \E p \in 0..1 : SrvPauseRecord(p)
  BY <1>15 DEF SrvPauseRecord
<1>16. CASE StopRecordBroadcast
  BY <1>16 DEF StopRecordBroadcast, Woken
<1>17. CASE JoinAudio
  BY <1>17 DEF JoinAudio, Join
<1>18. CASE JoinVideo
  BY <1>18 DEF JoinVideo, Join
<1>19. CASE CommandBroadcast
  BY <1>19 DEF CommandBroadcast, Woken
<1>20. CASE RecUnsupported
  BY <1>20 DEF RecUnsupported, RecReset
<1>21. CASE RecInitFails
  BY <1>21 DEF RecInitFails, RecReset
<1>22. CASE RecStartFails
  BY <1>22 DEF RecStartFails, RecReset
<1>23. CASE RecOpen
  BY <1>23 DEF RecOpen, RecReset
<1>24. CASE RecControls
  BY <1>24 DEF RecControls
<1>25. CASE CreateAudio
  BY <1>25 DEF CreateAudio, Create
<1>26. CASE CreateVideo
  BY <1>26 DEF CreateVideo, Create
<1>27. CASE RecInput
  <2>1. /\ encIn = "closed" /\ timestamp = 0 /\ timeoffset = 0 /\ paused = UNPAUSE
        /\ committed = -1 /\ cmd' = "recBcast"
        /\ UNCHANGED <<pc, mdesc, timestamp, timeoffset, paused, committed>>
    BY <1>27 DEF RecInput, NoFrames
  <2>2. /\ \A t \in mdesc : ~ready'[t] /\ pc[t] \notin {"filled", "sync"}
        /\ \A t \in Streams : clock'[t] = 0
    BY <1>27, <2>1 DEF RecInput, NoFrames
  <2>3. CtrlInv' /\ OrderInv'
    BY <2>1, <2>2
  <2>4. TimeInv'
    BY <2>1, <2>2
  <2>. QED BY <2>3, <2>4
<1>28. CASE RecInputFails
  BY <1>28 DEF RecInputFails
<1>29. CASE Bail2 \/ Bail1 \/ Bail
  BY <1>29 DEF Bail2, Bail1, Bail, Finished
<1>30. CASE UNCHANGED vars
  BY <1>30 DEF vars
<1>. QED
  BY
     <1>1, <1>2, <1>3, <1>4, <1>5, <1>6, <1>7, <1>8, <1>9, <1>10, <1>11, <1>12,
     <1>13, <1>14, <1>15, <1>16, <1>17, <1>18, <1>19, <1>20, <1>21, <1>22, <1>23,
     <1>24, <1>25, <1>26, <1>27, <1>28, <1>29, <1>30
  DEF Next, Call, Continue, Worker, Sync

(* Only a commit, or the start of a recording, writes to the file or moves  *)
(* the record time.                                                         *)
LEMMA CommittedBy ==
  ASSUME [Next]_vars, cmd # "recControls"
  PROVE  \/ \E t \in Streams : SyncCommit(t)
         \/ UNCHANGED <<committed, timestamp>>
BY DEF Next, Call, Continue, Worker, Sync, fileVars, dataVars, vars,
   LoopWait, LoopNext, SpuriousWakeup, GetBuffer, MarkReady, SyncSkip, SyncPaused,
   SyncRefused, SyncReturn, LoopExit, StopServer, StopBroadcast, SrvRecord, SrvStopRecord,
   CommandStop, SrvPauseRecord, StopRecordBroadcast, JoinAudio, JoinVideo, Join,
   CommandBroadcast, RecUnsupported, RecInitFails, RecStartFails, RecOpen, RecControls,
   CreateAudio, CreateVideo, Create, RecInput, RecInputFails, Bail2, Bail1, Bail

(* The books are right until a recording fails late.                        *)
THEOREM ClockInvariance == Spec => [](~late => ClockInv)
<1>1. Init => (~late => ClockInv)
  BY ClockInit
<1>2. (~late => IInv) /\ (~late => ClockInv) /\ [Next]_vars => (~late => ClockInv)'
  BY ClockStep, LateKept
<1>. QED BY Invariance, <1>1, <1>2, PTL DEF Spec

(* Sound and pictures are written in the order of their capture, however    *)
(* far one thread runs ahead of the other.                                  *)
THEOREM FramesInOrderHolds == Spec => FramesInOrder
<1>1. IInv /\ ClockInv /\ [Next]_vars => committed' >= committed \/ cmd = "recControls"
  <2> SUFFICES ASSUME IInv, ClockInv, [Next]_vars, cmd # "recControls"
               PROVE  committed' >= committed
    OBVIOUS
  <2>1. ASSUME NEW t \in Streams, SyncCommit(t) PROVE committed' >= committed
    BY <2>1 DEF IInv, TypeOK, PcInv, ClockInv, OrderInv, Streams, SyncCommit, BothReady,
           NextStream
  <2>2. CASE committed' = committed
    BY <2>2 DEF IInv, TypeOK
  <2>. QED BY <2>1, <2>2, CommittedBy
<1>2. (~late => IInv) /\ (~late => ClockInv) /\ [Next]_vars
        => [late' \/ committed' >= committed \/ cmd = "recControls"]_vars
  BY <1>1, LateKept
<1>. QED BY Invariance, ClockInvariance, <1>2, PTL DEF Spec, FramesInOrder

(* The record time of a recording with one stream never goes back and never *)
(* passes the last frame written, for any sequence of pauses.               *)
THEOREM RecordTimeSoundHolds == Spec => RecordTimeSound
<1>1. IInv /\ ClockInv /\ [Next]_vars /\ mdesc # Streams /\ cmd # "recControls"
        => timestamp' >= timestamp
  <2> SUFFICES ASSUME IInv, ClockInv, [Next]_vars, cmd # "recControls", mdesc # Streams
               PROVE  timestamp' >= timestamp
    OBVIOUS
  <2>1. ASSUME NEW t \in Streams, SyncCommit(t) PROVE timestamp' >= timestamp
    BY <2>1 DEF IInv, TypeOK, PcInv, ClockInv, OrderInv, TimeInv, Streams, SyncCommit,
           BothReady, NextStream, FrameTs, HackApplies, PausedAfter, TimeoffsetAfter,
           UNPAUSE, TO_PAUSE, PAUSE, TO_UNPAUSE
  <2>2. CASE timestamp' = timestamp
    BY <2>2 DEF IInv, TypeOK
  <2>. QED BY <2>1, <2>2, CommittedBy
<1>2. ClockInv' => (mdesc' # Streams /\ encIn' = "started"
                      => timestamp' <= committed' \/ timestamp' = 0)
  BY DEF ClockInv, TimeInv
<1>3. (~late => IInv) /\ (~late => ClockInv) /\ (~late => ClockInv)' /\ [Next]_vars
        => [late' \/
             /\ mdesc # Streams /\ cmd # "recControls" => timestamp' >= timestamp
             /\ mdesc' # Streams /\ encIn' = "started"
                  => timestamp' <= committed' \/ timestamp' = 0]_vars
  BY <1>1, <1>2, LateKept
<1>. QED BY Invariance, ClockInvariance, <1>3, PTL DEF Spec, RecordTimeSound

-----------------------------------------------------------------------------
(* The space on the disk                                                    *)

(* Arithmetic that does not leave the word is exact.                        *)
LEMMA NoWrap ==
  ASSUME NEW m \in Nat \ {0}, NEW x \in 0..(m - 1) PROVE x % m = x
OBVIOUS

(* Arithmetic that leaves it once comes back at the other end.              *)
LEMMA WrapOnce ==
  ASSUME NEW m \in Nat \ {0}, NEW x \in Nat, x - m \in 0..(m - 1) PROVE x % m = x - m
OBVIOUS

(* The file grows by a commit only.                                         *)
LEMMA WrittenBy ==
  ASSUME [Next]_vars, TypeOK, recordingSize' > recordingSize
  PROVE  \E t \in Streams : SyncCommit(t)
<1>1. ASSUME UNCHANGED recordingSize PROVE FALSE
  BY <1>1 DEF TypeOK
<1>2. ASSUME RecReset PROVE FALSE
  BY <1>2, NumbersAssumption DEF TypeOK, RecReset
<1>. QED BY <1>1, <1>2 DEF Next, Call, Continue, Worker, Sync, fileVars, dataVars, vars,
   LoopWait, LoopNext, SpuriousWakeup, GetBuffer, MarkReady, SyncSkip, SyncPaused,
   SyncRefused, SyncReturn, LoopExit, StopServer, StopBroadcast, SrvRecord, SrvStopRecord,
   CommandStop, SrvPauseRecord, StopRecordBroadcast, JoinAudio, JoinVideo, Join,
   CommandBroadcast, RecUnsupported, RecInitFails, RecStartFails, RecOpen, RecControls,
   CreateAudio, CreateVideo, Create, RecInput, RecInputFails, Bail2, Bail1, Bail

(* A frame is committed only if the file can be closed after it within 4 Gb, *)
(* and within the space that was free unless the test of it has wrapped.    *)
THEOREM CommitFitsHolds == Spec => CommitFits
<1>1. TypeOK /\ [Next]_vars =>
        (recordingSize' > recordingSize /\ Needed < UIntMod =>
           /\ recordingSize' + finalization' < FileSizeLimit
           /\ Needed <= diskFreeSpace => recordingSize' + finalization' < diskFreeSpace)
  <2> SUFFICES ASSUME TypeOK, [Next]_vars, recordingSize' > recordingSize, Needed < UIntMod
               PROVE  /\ recordingSize' + finalization' < FileSizeLimit
                      /\ Needed <= diskFreeSpace
                           => recordingSize' + finalization' < diskFreeSpace
    OBVIOUS
  <2>0. recordingSize \in 0..(UIntMod - 1) /\ UIntMod \in Nat \ {0}
    BY NumbersAssumption DEF TypeOK
  <2>1. PICK t \in Streams : SyncCommit(t)
    BY <2>0, WrittenBy
  <2> DEFINE c == size[NextStream]
             fin == finalization'
  <2>2. /\ fin \in Finalizations /\ preCommitChecks(c, fin) = 0
        /\ recordingSize' = UInt(recordingSize + c)
    BY <2>1 DEF SyncCommit
  <2>3. c \in 0..(UIntMod - 1) /\ fin \in 0..(UIntMod - 1) /\ diskFreeSpace \in Nat
    BY <2>2, SaveTypes, NumbersAssumption DEF TypeOK
  <2> HIDE DEF c, fin
  <2>4. recordingSize' = recordingSize + c
    <3>1. CASE recordingSize + c < UIntMod
      BY <2>0, <2>2, <2>3, <3>1, NoWrap DEF UInt
    <3>2. CASE recordingSize + c >= UIntMod
      <4> DEFINE x == recordingSize + c
      <4>1. x \in Nat /\ x - UIntMod \in 0..(UIntMod - 1)
        BY <2>0, <2>3, <3>2
      <4> HIDE DEF x
      <4>2. UInt(x) = x - UIntMod
        BY <2>0, <4>1, WrapOnce DEF UInt
      <4>3. recordingSize' \in Int /\ recordingSize' < recordingSize
        BY <2>0, <2>2, <2>3, <4>2 DEF x
      <4>. QED BY <2>0, <4>3
    <3>. QED BY <2>0, <2>3, <3>1, <3>2
  <2>5. Needed = fin + c /\ fin + c < UIntMod /\ UInt(fin + c) = fin + c
    <3>1. Needed = fin + c
      BY <2>0, <2>3, <2>4 DEF Needed, fin
    <3>2. fin + c \in 0..(UIntMod - 1)
      BY <2>0, <2>3, <3>1
    <3>. QED BY <2>0, <3>1, <3>2, NoWrap DEF UInt
  <2>6. recordingSize < FileSizeLimit - (fin + c)
    <3>1. FileSizeLimit - (fin + c) \in 0..(UIntMod - 1)
      BY <2>0, <2>3, <2>5 DEF FileSizeLimit
    <3>2. UInt(FileSizeLimit - (fin + c)) = FileSizeLimit - (fin + c)
      BY <2>0, <3>1, NoWrap DEF UInt
    <3>3. ~(recordingSize >= UInt(FileSizeLimit - UInt(fin + c)))
      BY <2>2 DEF preCommitChecks
    <3>. QED BY <2>0, <2>5, <3>1, <3>2, <3>3
  <2>7. ASSUME Needed <= diskFreeSpace PROVE recordingSize < diskFreeSpace - (fin + c)
    <3> DEFINE m == UIntMod * UIntMod
    <3>1. m \in Nat \ {0} /\ diskFreeSpace \in 0..(m - 1)
      BY <2>0 DEF TypeOK
    <3>2. ULongLong(diskFreeSpace - (fin + c)) = (diskFreeSpace - (fin + c)) % m
      BY DEF ULongLong
    <3> HIDE DEF m
    <3>3. diskFreeSpace - (fin + c) \in 0..(m - 1)
      BY <2>3, <2>5, <2>7, <3>1
    <3>4. ULongLong(diskFreeSpace - (fin + c)) = diskFreeSpace - (fin + c)
      BY <3>1, <3>2, <3>3, NoWrap
    <3>5. ~(recordingSize >= ULongLong(diskFreeSpace - UInt(fin + c)))
      BY <2>2 DEF preCommitChecks
    <3>. QED BY <2>0, <2>3, <2>5, <3>4, <3>5
  <2>8. recordingSize' + fin < FileSizeLimit
    BY <2>0, <2>3, <2>4, <2>6 DEF FileSizeLimit
  <2>9. Needed <= diskFreeSpace => recordingSize' + fin < diskFreeSpace
    BY <2>0, <2>3, <2>4, <2>7
  <2>. QED BY <2>8, <2>9 DEF fin
<1>. QED BY TypeCorrect, <1>1, PTL DEF Spec, CommitFits

=============================================================================
