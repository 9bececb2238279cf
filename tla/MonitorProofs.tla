--------------------------- MODULE MonitorProofs ---------------------------
(***************************************************************************)
(* Proofs about Monitor, for any client processes, modes and faults.  What   *)
(* the input and mLoop do is proved until both threads have been in start_srv*)
(* or stop_srv at once (raced); afterwards it fails (see README.md).         *)
(***************************************************************************)
EXTENDS Monitor, TLAPS

-----------------------------------------------------------------------------
(* The inductive invariant, by parts                                        *)

Locked == {"SrvStopMonitor", "SrvStartMonitor"}
Internal == "SrvStartMonitorInternal"

(* A thread is in start_srv or stop_srv when its own place says so, and not *)
(* both of them by way of the mutex.                                        *)
ServiceInv ==
  /\ srv["gc"] # "none" <=> gc = "start"
  /\ srv["cmd"] # "none" <=> cmd \in Locked \cup {Internal}
  /\ gc = "start" => cmd \notin Locked

(* Until they have raced, one thread at a time is in there.                 *)
RaceInv == ~raced => srv["cmd"] \in Quiet \/ srv["gc"] \in Quiet

On == /\ monitor = TRUE /\ enc = "started" /\ mpc \in {"test", "get"}
      /\ mThread = TRUE /\ mReady = TRUE
Off == monitor = FALSE /\ enc = "closed" /\ mpc = "none"

(* How far the monitor is when a thread has got to label.                   *)
Reached(label) ==
  /\ label = "start" => On \/ Off
  /\ label = "stop" => On
  /\ label = "join" => /\ monitor = TRUE /\ enc = "started" /\ mpc \in {"test", "get", "done"}
                       /\ mThread = TRUE /\ mReady = FALSE
  /\ label = "finish" => monitor = TRUE /\ enc = "started" /\ mpc = "none"
  /\ label \in {"activate", "init"} => Off
  /\ label = "create" => /\ monitor = FALSE /\ enc = "started" /\ mpc = "none"
                         /\ mReady = TRUE
  /\ label = "record" => On

InputInv ==
  /\ Reached(srv["cmd"]) /\ Reached(srv["gc"])
  /\ srv["cmd"] \in Quiet /\ srv["gc"] \in Quiet => On \/ Off

(* The monitor is only started when no request stands.                      *)
RequestInv ==
  /\ requests # {} => monitor = FALSE \/ cmd = "SrvStopMonitor"
  /\ gc = "start" => requests = {}
  /\ cmd = Internal => requests = {}
  /\ cmd = "SrvStartMonitor" /\ srv["cmd"] # "return" => requests = {}
  /\ cmd = "SrvStopMonitor" => srv["cmd"] \in {"stop", "join", "finish", "return"}
  /\ cmd = "SrvStopMonitor" /\ srv["cmd"] = "return" => monitor = FALSE

(* What holds always, and what holds until they have raced.                 *)
IInv == TypeOK /\ ServiceInv /\ RequestInv

TurnInv == RaceInv /\ (~raced => InputInv)

-----------------------------------------------------------------------------
(* The steps, by who makes them                                             *)

GcSteps == GcCheck \/ GcWait \/ GcSpuriousWakeup \/ GcGap \/ GcTimeout
Locks == \E pid \in Pids : SrvStopMonitor(pid) \/ SrvStartMonitor(pid)
ModeSteps ==
  \/ \E mode \in InModes : SetInputMode(mode)
  \/ \E mode \in OutModes : SetOutputMode(mode)
Returns == CommandReturns \/ InternalReturns
Ends == StopServer \/ StopSignal \/ StopJoin
Clients == \E pid \in Pids : Exit(pid) \/ Spawn(pid)

(* Every step is of one of these groups.                                    *)
LEMMA StepCases ==
  ASSUME [Next]_vars
  PROVE  \/ Service("cmd") \/ Service("gc") \/ GcSteps \/ Loop \/ Locks \/ ModeSteps
         \/ Returns \/ Ends \/ Clients \/ UNCHANGED vars
BY Zenon DEF Next, Collector, Continue, Call, Environment, GcSteps, Locks, ModeSteps, Returns,
             Ends, Clients

-----------------------------------------------------------------------------
(* Each part of the invariant is kept                                       *)

(* In what follows the steps are expanded.                                  *)
USE DEF statics, modeVars, lockVars, places, vars, Goto, Threads,
  Service, StopThread, JoinThread, FinishInput, StartTest, Activate, InitInput, CreateThread,
  RecordModes, GcSteps, GcCheck, GcWait, GcSpuriousWakeup, GcGap, GcTimeout, Signalled,
  Loop, LoopTest, LoopGet, Locks, SrvStopMonitor, SrvStartMonitor,
  ModeSteps, SetInputMode, SetOutputMode, Returns, CommandReturns, InternalReturns,
  Ends, StopServer, StopSignal, StopJoin, Clients, Exit, Spawn, Locked, Internal

(* The flags stay Booleans.                                                 *)
LEMMA FlagTypesStep ==
  ASSUME FlagTypes, [Next]_vars
  PROVE  FlagTypes'
<1> USE DEF FlagTypes
<1>1. CASE Service("cmd")
  BY <1>1, Zenon
<1>2. CASE Service("gc")
  BY <1>2, Zenon
<1>3. CASE GcSteps
  BY <1>3, Zenon
<1>4. CASE Loop
  BY <1>4, Zenon
<1>5. CASE Locks
  BY <1>5, Zenon
<1>6. CASE ModeSteps
  BY <1>6, Zenon
<1>7. CASE Returns
  BY <1>7, Zenon
<1>8. CASE Ends
  BY <1>8, Zenon
<1>9. CASE Clients
  BY <1>9, Zenon
<1>10. CASE UNCHANGED vars
  BY <1>10, Zenon
<1>. QED
  BY StepCases, <1>1, <1>2, <1>3, <1>4, <1>5, <1>6, <1>7, <1>8, <1>9, <1>10, Zenon

(* The modes stay those there are.                                          *)
LEMMA ModeTypesStep ==
  ASSUME ModeTypes, [Next]_vars
  PROVE  ModeTypes'
<1> USE DEF ModeTypes, Modes
<1>1. CASE Service("cmd")
  BY <1>1, Zenon
<1>2. CASE Service("gc")
  BY <1>2, Zenon
<1>3. CASE GcSteps
  BY <1>3, Zenon
<1>4. CASE Loop
  BY <1>4, Zenon
<1>5. CASE Locks
  BY <1>5, Zenon
<1>6. CASE ModeSteps
  BY <1>6, ModesAssumption, Zenon
<1>7. CASE Returns
  BY <1>7, Zenon
<1>8. CASE Ends
  BY <1>8, Zenon
<1>9. CASE Clients
  BY <1>9, Zenon
<1>10. CASE UNCHANGED vars
  BY <1>10, Zenon
<1>. QED
  BY StepCases, <1>1, <1>2, <1>3, <1>4, <1>5, <1>6, <1>7, <1>8, <1>9, <1>10, Zenon

(* The threads stay in their places, and the requests those of processes.   *)
LEMMA PlaceTypesStep ==
  ASSUME PlaceTypes, [Next]_vars
  PROVE  PlaceTypes'
<1> USE DEF PlaceTypes
<1>1. CASE Service("cmd")
  BY <1>1, Zenon
<1>2. CASE Service("gc")
  BY <1>2, Zenon
<1>3. CASE GcSteps
  BY <1>3, Zenon
<1>4. CASE Loop
  BY <1>4, Zenon
<1>5. CASE Locks
  BY <1>5, Zenon
<1>6. CASE ModeSteps
  BY <1>6, Zenon
<1>7. CASE Returns
  BY <1>7, Zenon
<1>8. CASE Ends
  BY <1>8, Zenon
<1>9. CASE Clients
  BY <1>9, Zenon
<1>10. CASE UNCHANGED vars
  BY <1>10, Zenon
<1>. QED
  BY StepCases, <1>1, <1>2, <1>3, <1>4, <1>5, <1>6, <1>7, <1>8, <1>9, <1>10, Zenon

(* So do the places in start_srv and stop_srv.                              *)
LEMMA ServiceTypesStep ==
  ASSUME ServiceTypes, [Next]_vars
  PROVE  ServiceTypes'
<1> USE DEF ServiceTypes, ServiceLabels
<1>1. CASE Service("cmd")
  BY <1>1, SMT
<1>2. CASE Service("gc")
  BY <1>2, SMT
<1>3. CASE GcSteps
  BY <1>3, SMT
<1>4. CASE Loop
  BY <1>4, SMT
<1>5. CASE Locks
  BY <1>5, SMT
<1>6. CASE ModeSteps
  BY <1>6, SMT
<1>7. CASE Returns
  BY <1>7, SMT
<1>8. CASE Ends
  BY <1>8, SMT
<1>9. CASE Clients
  BY <1>9, SMT
<1>10. CASE UNCHANGED vars
  BY <1>10, SMT
<1>. QED
  BY StepCases, <1>1, <1>2, <1>3, <1>4, <1>5, <1>6, <1>7, <1>8, <1>9, <1>10, Zenon

(* The mutex is held where the code holds it.                               *)
LEMMA MutexStep ==
  ASSUME PlaceTypes, MutexHeld, ServiceInv, ServiceTypes, [Next]_vars
  PROVE  MutexHeld'
<1> USE DEF PlaceTypes, MutexHeld, ServiceInv, ServiceTypes
<1>1. CASE Service("cmd")
  BY <1>1, Zenon
<1>2. CASE Service("gc")
  BY <1>2, Zenon
<1>3. CASE GcSteps
  BY <1>3, Zenon
<1>4. CASE Loop
  BY <1>4, Zenon
<1>5. CASE Locks
  BY <1>5, Zenon
<1>6. CASE ModeSteps
  BY <1>6, Zenon
<1>7. CASE Returns
  BY <1>7, Zenon
<1>8. CASE Ends
  BY <1>8, Zenon
<1>9. CASE Clients
  BY <1>9, Zenon
<1>10. CASE UNCHANGED vars
  BY <1>10, Zenon
<1>. QED
  BY StepCases, <1>1, <1>2, <1>3, <1>4, <1>5, <1>6, <1>7, <1>8, <1>9, <1>10, Zenon

(* A thread that serves a command of the mutex's holds it.                  *)
LEMMA ServiceStep ==
  ASSUME PlaceTypes, MutexHeld, ServiceInv, ServiceTypes, [Next]_vars
  PROVE  ServiceInv'
<1> USE DEF MutexHeld, ServiceInv, ServiceTypes
<1>1. CASE Service("cmd")
  BY <1>1, Zenon
<1>2. CASE Service("gc")
  BY <1>2, Zenon
<1>3. CASE GcSteps
  BY <1>3, Zenon
<1>4. CASE Loop
  BY <1>4, Zenon
<1>5. CASE Locks
  BY <1>5, Zenon
<1>6. CASE ModeSteps
  BY <1>6, Zenon
<1>7. CASE Returns
  BY <1>7, Zenon
<1>8. CASE Ends
  BY <1>8, Zenon
<1>9. CASE Clients
  BY <1>9, Zenon
<1>10. CASE UNCHANGED vars
  BY <1>10, Zenon
<1>. QED
  BY StepCases, <1>1, <1>2, <1>3, <1>4, <1>5, <1>6, <1>7, <1>8, <1>9, <1>10, Zenon

(* A thread that finds the other one inside has raced, and that is kept.    *)
LEMMA RaceStep ==
  ASSUME FlagTypes, ServiceTypes, RaceInv, [Next]_vars
  PROVE  RaceInv' /\ (raced => raced')
<1> USE DEF FlagTypes, ServiceTypes, RaceInv, Quiet
<1>1. CASE Service("cmd")
  BY <1>1, SMT
<1>2. CASE Service("gc")
  BY <1>2, SMT
<1>3. CASE GcSteps
  <2>1. CASE GcCheck
    <3>1. CASE gc' = "start"
      <4>1. Goto("gc", "start")
        BY <2>1, <3>1, Zenon
      <4>. QED BY <4>1, Zenon
    <3>2. CASE gc' # "start"
      BY <2>1, <3>2, Zenon
    <3>. QED BY <3>1, <3>2, Zenon
  <2>2. CASE GcWait
    BY <2>2, SMT
  <2>. QED BY <1>3, <2>1, <2>2, Zenon
<1>4. CASE Loop
  BY <1>4, SMT
<1>5. CASE Locks
  <2>1. PICK pid \in Pids : SrvStopMonitor(pid) \/ SrvStartMonitor(pid)
    BY <1>5
  <2>2. CASE SrvStopMonitor(pid)
    <3>1. Goto("cmd", IF monitor THEN "stop" ELSE "return")
      BY <2>2, Zenon
    <3>. QED BY <3>1, Zenon
  <2>3. CASE SrvStartMonitor(pid)
    <3>1. Goto("cmd", IF requests' = {} THEN "start" ELSE "return")
      BY <2>3, Zenon
    <3>. QED BY <3>1, Zenon
  <2>. QED BY <2>1, <2>2, <2>3
<1>6. CASE ModeSteps
  BY <1>6, SMT
<1>7. CASE Returns
  BY <1>7, SMT
<1>8. CASE Ends
  BY <1>8, SMT
<1>9. CASE Clients
  BY <1>9, SMT
<1>10. CASE UNCHANGED vars
  BY <1>10, SMT
<1>. QED
  BY StepCases, <1>1, <1>2, <1>3, <1>4, <1>5, <1>6, <1>7, <1>8, <1>9, <1>10, Zenon

(* The encoder input and mLoop are as far as that thread is.                *)
LEMMA InputStep ==
  ASSUME FlagTypes, PlaceTypes, ServiceTypes, MutexHeld, ServiceInv, RaceInv, InputInv,
         ~raced', [Next]_vars
  PROVE  InputInv'
<1> USE DEF FlagTypes, PlaceTypes, ServiceTypes, MutexHeld, ServiceInv, RaceInv,
            InputInv, Quiet, Reached, On, Off
<1>1. CASE Service("cmd")
  BY <1>1, Zenon
<1>2. CASE Service("gc")
  BY <1>2, Zenon
<1>3. CASE GcSteps
  BY <1>3, Zenon
<1>4. CASE Loop
  BY <1>4, Zenon
<1>5. CASE Locks
  BY <1>5, Zenon
<1>6. CASE ModeSteps
  BY <1>6, Zenon
<1>7. CASE Returns
  BY <1>7, Zenon
<1>8. CASE Ends
  BY <1>8, Zenon
<1>9. CASE Clients
  BY <1>9, Zenon
<1>10. CASE UNCHANGED vars
  BY <1>10, Zenon
<1>. QED
  BY StepCases, <1>1, <1>2, <1>3, <1>4, <1>5, <1>6, <1>7, <1>8, <1>9, <1>10, Zenon

(* The monitor is not started while a request stands.                       *)
LEMMA RequestStep ==
  ASSUME PlaceTypes, ServiceTypes, MutexHeld, ServiceInv, RequestInv, [Next]_vars
  PROVE  RequestInv'
<1> USE DEF PlaceTypes, ServiceTypes, MutexHeld, ServiceInv, RequestInv
<1>1. CASE Service("cmd")
  BY <1>1, Zenon
<1>2. CASE Service("gc")
  BY <1>2, Zenon
<1>3. CASE GcSteps
  BY <1>3, Zenon
<1>4. CASE Loop
  BY <1>4, Zenon
<1>5. CASE Locks
  BY <1>5, SMT
<1>6. CASE ModeSteps
  BY <1>6, Zenon
<1>7. CASE Returns
  BY <1>7, Zenon
<1>8. CASE Ends
  BY <1>8, Zenon
<1>9. CASE Clients
  BY <1>9, Zenon
<1>10. CASE UNCHANGED vars
  BY <1>10, Zenon
<1>. QED
  BY StepCases, <1>1, <1>2, <1>3, <1>4, <1>5, <1>6, <1>7, <1>8, <1>9, <1>10, Zenon

-----------------------------------------------------------------------------
(* The theorems                                                             *)

(* The types, the mutex and the requests, of every daemon.                  *)
THEOREM Invariance == Spec => []IInv
<1>1. Init => IInv
  <2> SUFFICES ASSUME Init PROVE IInv
    OBVIOUS
  <2> USE DEF Init
  <2>1. FlagTypes /\ ModeTypes /\ PlaceTypes /\ MutexHeld
    BY Zenon DEF FlagTypes, ModeTypes, Modes, PlaceTypes, MutexHeld
  <2>2. ServiceTypes /\ ServiceInv
    BY DEF ServiceTypes, ServiceLabels, ServiceInv
  <2>3. RequestInv
    BY Zenon DEF RequestInv
  <2>. QED BY <2>1, <2>2, <2>3, Zenon DEF IInv, TypeOK
<1>2. IInv /\ [Next]_vars => IInv'
  BY FlagTypesStep, ModeTypesStep, PlaceTypesStep, ServiceTypesStep, MutexStep, ServiceStep,
     RequestStep, Zenon DEF IInv, TypeOK
<1>. QED BY <1>1, <1>2, PTL DEF Spec

(* The statics and the threads keep their types, and garbageMutex is held   *)
(* exactly where the code holds it, whoever dies and is born meanwhile.     *)
THEOREM TypeCorrect == Spec => []TypeOK
<1>1. IInv => TypeOK
  BY Zenon DEF IInv
<1>. QED BY <1>1, Invariance, PTL

(* A request that stands keeps the monitor off, and nobody but its process  *)
(* withdraws it while that lives: in every daemon, whatever start_srv does  *)
(* to the encoder input.                                                    *)
THEOREM SuppressionAlwaysHolds == Spec => SuppressionHolds
<1>1. IInv => (requests # {} => ~monitor \/ cmd = "SrvStopMonitor")
  BY Zenon DEF IInv, RequestInv
<1>2. [Next]_vars => [\A pid \in requests \ requests' :
                        pid \notin alive \/ SrvStartMonitor(pid) \/ StopJoin]_vars
  <2> SUFFICES ASSUME [Next]_vars, NEW pid \in requests \ requests'
               PROVE  pid \notin alive \/ SrvStartMonitor(pid) \/ StopJoin
    BY Zenon
  <2>1. CASE \E other \in Pids : SrvStartMonitor(other)
    BY <2>1
  <2>. QED BY <2>1, StepCases, Zenon
<1>. QED BY <1>1, <1>2, Invariance, PTL DEF Spec, SuppressionHolds

(* Until they have raced, one thread at a time runs start_srv and stop_srv.  *)
THEOREM TurnInvariance == Spec => []TurnInv
<1>1. Init => TurnInv
  <2> SUFFICES ASSUME Init PROVE TurnInv
    OBVIOUS
  <2>1. srv["cmd"] = "none" /\ srv["gc"] = "none" /\ Off
    BY Zenon DEF Init, Off
  <2>. QED BY <2>1, Zenon DEF TurnInv, RaceInv, InputInv, Quiet, Reached, Off
<1>2. IInv /\ TurnInv /\ [Next]_vars => TurnInv'
  BY RaceStep, InputStep, Zenon DEF IInv, TypeOK, TurnInv
<1>. QED BY <1>1, <1>2, Invariance, PTL DEF Spec

(* The encoder input is opened and closed in turn, and mLoop reads frames   *)
(* from an open one only, until the two threads have been in there at once. *)
THEOREM InputProtocolHolds == Spec => []InputProtocol
<1>1. IInv /\ TurnInv => InputProtocol
  <2> SUFFICES ASSUME ServiceTypes, InputInv PROVE enc # "bad"
    BY Zenon DEF IInv, TypeOK, TurnInv, InputProtocol
  <2>1. srv["cmd"] \in ServiceLabels /\ srv["gc"] \in ServiceLabels
    BY DEF ServiceTypes
  <2>. QED
    BY <2>1, Zenon DEF InputInv, ServiceLabels, Quiet, Reached, On, Off
<1>. QED BY <1>1, Invariance, TurnInvariance, PTL

(* Between two commands the flag monitor, the encoder input and mLoop agree, *)
(* after any failure of start_srv, as long as they have not raced.          *)
THEOREM MonitorAgreesHolds == Spec => []MonitorAgrees
<1>1. TurnInv => MonitorAgrees
  BY Zenon DEF TurnInv, InputInv, MonitorAgrees, Quiet, On, Off
<1>. QED BY <1>1, TurnInvariance, PTL

(* CMD_SET_OUTPUT_MODE is the one way to a race: without it garbageMutex    *)
(* keeps the threads apart, and the input is never called out of turn.      *)
THEOREM InputAloneHolds == ASSUME OutModes = {} PROVE Spec => []InputAlone
<1> DEFINE Mutual == cmd # Internal /\ raced = FALSE
<1>1. Init => Mutual
  BY Zenon DEF Init
<1>2. IInv /\ IInv' /\ Mutual /\ [Next]_vars => Mutual'
  <2> SUFFICES ASSUME IInv, IInv', Mutual, [Next]_vars PROVE Mutual'
    OBVIOUS
  <2> USE DEF IInv, TypeOK, FlagTypes, PlaceTypes, ServiceTypes, MutexHeld, ServiceInv, Quiet
  <2>0. cmd' # Internal
    BY StepCases, Zenon
  <2>1. srv'["cmd"] = "none" \/ srv'["gc"] = "none"
    BY <2>0, Zenon
  <2>2. raced' = raced \/ raced' = (raced \/ \A q \in Threads : srv'[q] \notin Quiet)
    BY StepCases, Zenon
  <2>. QED BY <2>0, <2>1, <2>2, Zenon
<1>3. Mutual /\ InputProtocol => InputAlone
  BY Zenon DEF InputProtocol, InputAlone
<1>. QED BY <1>1, <1>2, <1>3, Invariance, InputProtocolHolds, PTL DEF Spec

=============================================================================
