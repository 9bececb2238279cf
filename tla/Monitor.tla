------------------------------ MODULE Monitor ------------------------------
(***************************************************************************)
(* The video monitor of the media server, server-monitor-nms.c, with the   *)
(* commands of server-main.c that drive it and the daemon's start and end  *)
(* in generic-nms.c.                                                       *)
(*                                                                         *)
(* Two threads run start_srv and stop_srv: the command thread "cmd" and the*)
(* garbage collector "gc", which forgets the suppression requests of       *)
(* processes that died and restarts the monitor when none is left.  Both   *)
(* hold garbageMutex while they do, except the command thread when it comes*)
(* from SrvStartMonitorInternal.  A third thread, mLoop, pumps frames while *)
(* the monitor is on.  Client processes die and pids are used again.       *)
(***************************************************************************)
EXTENDS Integers

CONSTANTS
  Pids,             \* client processes
  InModes,          \* modes a client may give CMD_SET_INPUT_MODE
  OutModes,         \* modes a client may give CMD_SET_OUTPUT_MODE
  Faults,           \* steps of start_srv and SrvStopMonitor that may fail
  SpuriousWakeups   \* whether pthread_cond_wait may return without a signal

Steps == {"activate", "init", "create", "request"}
Modes == {0, 1}     \* NTSC, PAL

ASSUME ModesAssumption == InModes \subseteq Modes /\ OutModes \subseteq Modes
ASSUME FaultsAssumption == Faults \subseteq Steps /\ SpuriousWakeups \in BOOLEAN

Threads == {"cmd", "gc"}

VARIABLES
  monitor, inNTSC_PAL, outNTSC_PAL, mReady, mThread,  \* the statics
  requests,        \* pids in suppressionRequests; suppressionCount is their number
  mutex,           \* holder of garbageMutex, or "free"
  garbageThreadQuit,
  srv,             \* srv[p]: where thread p stands in start_srv or stop_srv
  cmd,             \* the command being served, or where its service stands
  gc,              \* where garbageLoop stands
  mpc,             \* where mLoop stands
  failed,          \* history: the last start_srv returned -1
  inMode, outMode, \* external: modes kept by the input and the output plugins
  enc,             \* external: state of the encoder input
  alive,           \* external: client processes that exist
  raced            \* history: both threads have been in start_srv at once

statics == <<monitor, inNTSC_PAL, outNTSC_PAL, mReady, mThread, failed>>
modeVars == <<inMode, outMode>>
lockVars == <<requests, mutex, garbageThreadQuit>>
places == <<srv, raced>>

vars == <<monitor, inNTSC_PAL, outNTSC_PAL, mReady, mThread, requests, mutex,
          garbageThreadQuit, srv, cmd, gc, mpc, failed, inMode, outMode, enc, alive,
          raced>>

(* A thread is not in start_srv or stop_srv, or about to return from it.    *)
Quiet == {"none", "return"}

Goto(p, label) ==
  /\ srv' = [srv EXCEPT ![p] = label]
  /\ raced' = (raced \/ \A q \in Threads : srv'[q] \notin Quiet)

-----------------------------------------------------------------------------
(* mLoop: frames are fetched and put back until mReady is cleared.          *)

LoopTest ==
  /\ mpc = "test"
  /\ mpc' = IF mReady THEN "get" ELSE "done"
  /\ UNCHANGED <<statics, lockVars, places, cmd, gc, modeVars, enc, alive>>

LoopGet ==
  /\ mpc = "get"
  /\ enc' = IF enc = "started" THEN enc ELSE "bad"
  /\ mpc' = "test"
  /\ UNCHANGED <<statics, lockVars, places, cmd, gc, modeVars, alive>>

-----------------------------------------------------------------------------
(* stop_srv, by thread p                                                    *)

(* Mutation: the monitor thread is not waited for.                          *)
StopThreadNoJoin(p) ==
  /\ srv[p] = "stop"
  /\ mReady' = FALSE /\ mThread' = FALSE
  /\ Goto(p, "finish")
  /\ UNCHANGED <<monitor, inNTSC_PAL, outNTSC_PAL, failed, lockVars, cmd, gc, mpc,
                 modeVars, enc, alive>>

StopThread(p) ==
  /\ srv[p] = "stop"
  /\ mReady' = (mReady /\ ~mThread)
  /\ Goto(p, IF mThread THEN "join" ELSE "finish")
  /\ UNCHANGED <<monitor, inNTSC_PAL, outNTSC_PAL, mThread, failed, lockVars, cmd, gc,
                 mpc, modeVars, enc, alive>>

JoinThread(p) ==
  /\ srv[p] = "join"
  /\ mpc \in {"done", "none"}
  /\ mpc' = "none" /\ mThread' = FALSE
  /\ Goto(p, "finish")
  /\ UNCHANGED <<monitor, inNTSC_PAL, outNTSC_PAL, mReady, failed, lockVars, cmd, gc,
                 modeVars, enc, alive>>

(* stop_srv ends SrvStopMonitor; elsewhere start_srv goes on from it.       *)
FinishInput(p) ==
  /\ srv[p] = "finish"
  /\ enc' = IF enc = "started" THEN "closed" ELSE "bad"
  /\ monitor' = FALSE
  /\ Goto(p, IF p = "cmd" /\ cmd = "SrvStopMonitor" THEN "return" ELSE "activate")
  /\ UNCHANGED <<inNTSC_PAL, outNTSC_PAL, mReady, mThread, failed, lockVars, cmd, gc,
                 mpc, modeVars, alive>>

-----------------------------------------------------------------------------
(* start_srv, by thread p                                                   *)

(* Nothing to do if the monitor runs in the current modes; if it runs in    *)
(* others, it is stopped first.                                             *)
StartTest(p) ==
  /\ srv[p] = "start"
  /\ LET match == monitor /\ inNTSC_PAL = inMode /\ outNTSC_PAL = outMode
     IN /\ Goto(p, IF match THEN "return" ELSE IF monitor THEN "stop" ELSE "activate")
        /\ failed' = (failed /\ ~match)
  /\ UNCHANGED <<monitor, inNTSC_PAL, outNTSC_PAL, mReady, mThread, lockVars, cmd, gc,
                 mpc, modeVars, enc, alive>>

(* OutputActivateMode.                                                      *)
Activate(p) ==
  /\ srv[p] = "activate"
  /\ \/ Goto(p, "init") /\ UNCHANGED failed
     \/ "activate" \in Faults /\ Goto(p, "return") /\ failed' = TRUE
  /\ UNCHANGED <<monitor, inNTSC_PAL, outNTSC_PAL, mReady, mThread, lockVars, cmd, gc,
                 mpc, modeVars, enc, alive>>

(* EncInputInit, EncInputStart and mReady = 1.                              *)
InitInput(p) ==
  /\ srv[p] = "init"
  /\ \/ /\ enc' = IF enc = "closed" THEN "started" ELSE "bad"
        /\ mReady' = TRUE
        /\ Goto(p, "create")
        /\ UNCHANGED <<inNTSC_PAL, outNTSC_PAL, failed>>
     \/ /\ "init" \in Faults
        /\ inNTSC_PAL' = -1 /\ outNTSC_PAL' = -1 /\ failed' = TRUE
        /\ Goto(p, "return")
        /\ UNCHANGED <<enc, mReady>>
  /\ UNCHANGED <<monitor, mThread, lockVars, cmd, gc, mpc, modeVars, alive>>

(* Mutation: the encoder input stays open when the thread is not created.   *)
CreateThreadLeaks(p) ==
  /\ srv[p] = "create"
  /\ \/ /\ mpc' = "test" /\ mThread' = TRUE /\ monitor' = TRUE
        /\ Goto(p, "record")
        /\ UNCHANGED failed
     \/ /\ "create" \in Faults
        /\ mThread' \in BOOLEAN /\ failed' = TRUE
        /\ Goto(p, "return")
        /\ UNCHANGED <<mpc, monitor>>
  /\ UNCHANGED <<inNTSC_PAL, outNTSC_PAL, mReady, lockVars, cmd, gc, modeVars, enc,
                 alive>>

(* pthread_create, monitor = 1; a failed pthread_create leaves any handle.  *)
CreateThread(p) ==
  /\ srv[p] = "create"
  /\ \/ /\ mpc' = "test" /\ mThread' = TRUE /\ monitor' = TRUE
        /\ Goto(p, "record")
        /\ UNCHANGED <<enc, failed>>
     \/ /\ "create" \in Faults
        /\ mThread' \in BOOLEAN /\ failed' = TRUE
        /\ enc' = IF enc = "started" THEN "closed" ELSE "bad"
        /\ Goto(p, "return")
        /\ UNCHANGED <<mpc, monitor>>
  /\ UNCHANGED <<inNTSC_PAL, outNTSC_PAL, mReady, lockVars, cmd, gc, modeVars, alive>>

RecordModes(p) ==
  /\ srv[p] = "record"
  /\ inNTSC_PAL' = inMode /\ outNTSC_PAL' = outMode
  /\ failed' = FALSE
  /\ Goto(p, "return")
  /\ UNCHANGED <<monitor, mReady, mThread, lockVars, cmd, gc, mpc, modeVars, enc,
                 alive>>

Service(p) ==
  \/ StopThread(p) \/ JoinThread(p) \/ FinishInput(p)
  \/ StartTest(p) \/ Activate(p) \/ InitInput(p) \/ CreateThread(p) \/ RecordModes(p)

-----------------------------------------------------------------------------
(* garbageLoop                                                              *)

(* Mutations: the dead are not forgotten; and the mutex is let go too early. *)
GcCheckKeepsDead ==
  /\ gc = "loop" /\ mutex = "free"
  /\ gc' = IF garbageThreadQuit THEN "done" ELSE IF requests = {} THEN "start" ELSE "gap"
  /\ mutex' = IF gc' = "start" THEN "gc" ELSE "free"
  /\ IF gc' = "start" THEN Goto("gc", "start") ELSE UNCHANGED places
  /\ UNCHANGED <<statics, requests, garbageThreadQuit, cmd, mpc, modeVars, enc,
                 alive>>

GcCheckUnlocks ==
  /\ gc = "loop" /\ mutex = "free"
  /\ requests' = IF garbageThreadQuit THEN requests ELSE requests \cap alive
  /\ gc' = IF garbageThreadQuit THEN "done" ELSE IF requests' = {} THEN "start" ELSE "gap"
  /\ IF gc' = "start" THEN Goto("gc", "start") ELSE UNCHANGED places
  /\ UNCHANGED <<statics, mutex, garbageThreadQuit, cmd, mpc, modeVars, enc, alive>>

(* Under the mutex, which start_srv keeps: quit, or forget the requests of  *)
(* the dead, and start the monitor if no request is left.                   *)
GcCheck ==
  /\ gc = "loop" /\ mutex = "free"
  /\ requests' = IF garbageThreadQuit THEN requests ELSE requests \cap alive
  /\ gc' = IF garbageThreadQuit THEN "done" ELSE IF requests' = {} THEN "start" ELSE "gap"
  /\ mutex' = IF gc' = "start" THEN "gc" ELSE "free"
  /\ IF gc' = "start" THEN Goto("gc", "start") ELSE UNCHANGED places
  /\ UNCHANGED <<statics, garbageThreadQuit, cmd, mpc, modeVars, enc, alive>>

(* start_srv is back; whatever it says, pthread_cond_wait.                  *)
GcWait ==
  /\ gc = "start" /\ srv["gc"] = "return"
  /\ gc' = "wait"
  /\ mutex' = "free" /\ Goto("gc", "none")
  /\ UNCHANGED <<statics, requests, garbageThreadQuit, cmd, mpc, modeVars, enc,
                 alive>>

GcSpuriousWakeup ==
  /\ SpuriousWakeups
  /\ gc = "wait"
  /\ gc' = "gap"
  /\ UNCHANGED <<statics, lockVars, places, cmd, mpc, modeVars, enc, alive>>

(* The mutex is taken again: quit, or pthread_cond_timedwait.               *)
GcGap ==
  /\ gc = "gap" /\ mutex = "free"
  /\ gc' = IF garbageThreadQuit THEN "done" ELSE "timed"
  /\ UNCHANGED <<statics, lockVars, places, cmd, mpc, modeVars, enc, alive>>

(* Two seconds are over, or a signal ended them.                            *)
GcTimeout ==
  /\ gc = "timed"
  /\ gc' = "loop"
  /\ UNCHANGED <<statics, lockVars, places, cmd, mpc, modeVars, enc, alive>>

(* pthread_cond_signal(&garbageCond)                                        *)
Signalled == IF gc = "wait" THEN "gap" ELSE gc

-----------------------------------------------------------------------------
(* The command thread                                                       *)

(* Mutation: the monitor is left on if its process is not listed yet.       *)
SrvStopMonitorListsOnly(pid) ==
  /\ cmd = "idle" /\ mutex = "free"
  /\ requests' = requests \cup {pid}
  /\ mutex' = "cmd" /\ cmd' = "SrvStopMonitor"
  /\ Goto("cmd", IF monitor /\ pid \in requests THEN "stop" ELSE "return")
  /\ UNCHANGED <<statics, garbageThreadQuit, gc, mpc, modeVars, enc, alive>>

(* Takes garbageMutex.  Nobody else reads the list before it is released,   *)
(* so that the request is entered here, before stop_srv and not after it.   *)
SrvStopMonitor(pid) ==
  /\ cmd = "idle" /\ mutex = "free"
  /\ \/ requests' = requests \cup {pid}
     \/ "request" \in Faults /\ UNCHANGED requests
  /\ mutex' = "cmd" /\ cmd' = "SrvStopMonitor"
  /\ Goto("cmd", IF monitor THEN "stop" ELSE "return")
  /\ UNCHANGED <<statics, garbageThreadQuit, gc, mpc, modeVars, enc, alive>>

SrvStartMonitor(pid) ==
  /\ cmd = "idle" /\ mutex = "free"
  /\ requests' = requests \ {pid}
  /\ mutex' = "cmd" /\ cmd' = "SrvStartMonitor"
  /\ Goto("cmd", IF requests' = {} THEN "start" ELSE "return")
  /\ UNCHANGED <<statics, garbageThreadQuit, gc, mpc, modeVars, enc, alive>>

(* SIGNAL_AND_UNLOCK                                                        *)
CommandReturns ==
  /\ cmd \in {"SrvStopMonitor", "SrvStartMonitor"}
  /\ srv["cmd"] = "return"
  /\ gc' = Signalled
  /\ mutex' = "free" /\ cmd' = "idle" /\ Goto("cmd", "none")
  /\ UNCHANGED <<statics, requests, garbageThreadQuit, mpc, modeVars, enc, alive>>

(* CMD_SET_INPUT_MODE only tells the input plugin.                          *)
SetInputMode(mode) ==
  /\ cmd = "idle"
  /\ inMode' = mode
  /\ UNCHANGED <<statics, lockVars, places, cmd, gc, mpc, outMode, enc, alive>>

(* CMD_SET_OUTPUT_MODE: if the monitor is on, SrvStartMonitorInternal, which *)
(* calls start_srv and takes no mutex.                                      *)
SetOutputMode(mode) ==
  /\ cmd = "idle"
  /\ outMode' = mode
  /\ IF monitor
     THEN cmd' = "SrvStartMonitorInternal" /\ Goto("cmd", "start")
     ELSE UNCHANGED <<cmd, places>>
  /\ UNCHANGED <<statics, lockVars, gc, mpc, inMode, enc, alive>>

InternalReturns ==
  /\ cmd = "SrvStartMonitorInternal"
  /\ srv["cmd"] = "return"
  /\ cmd' = "idle" /\ Goto("cmd", "none")
  /\ UNCHANGED <<statics, lockVars, gc, mpc, modeVars, enc, alive>>

(* CMD_STOP_SERVER: SrvStopMonitorGarbageCollector, then the daemon exits.  *)
StopServer ==
  /\ cmd = "idle" /\ mutex = "free"
  /\ garbageThreadQuit' = TRUE
  /\ cmd' = "signal"
  /\ UNCHANGED <<statics, requests, mutex, places, gc, mpc, modeVars, enc, alive>>

(* Mutation: the collector is not signalled.                                *)
StopSignalSilent ==
  /\ cmd = "signal"
  /\ cmd' = "join"
  /\ UNCHANGED <<statics, lockVars, places, gc, mpc, modeVars, enc, alive>>

StopSignal ==
  /\ cmd = "signal"
  /\ gc' = Signalled
  /\ cmd' = "join"
  /\ UNCHANGED <<statics, lockVars, places, mpc, modeVars, enc, alive>>

StopJoin ==
  /\ cmd = "join" /\ gc = "done"
  /\ requests' = {}
  /\ cmd' = "off"
  /\ UNCHANGED <<statics, mutex, garbageThreadQuit, places, gc, mpc, modeVars, enc,
                 alive>>

-----------------------------------------------------------------------------
(* External: client processes end, and their pids are given to new ones.    *)

Exit(pid) ==
  /\ pid \in alive
  /\ alive' = alive \ {pid}
  /\ UNCHANGED <<statics, lockVars, places, cmd, gc, mpc, modeVars, enc>>

Spawn(pid) ==
  /\ pid \notin alive
  /\ alive' = alive \cup {pid}
  /\ UNCHANGED <<statics, lockVars, places, cmd, gc, mpc, modeVars, enc>>

-----------------------------------------------------------------------------
(* NmsSrvInit: SrvMonitorInitOutputMode, SrvStartMonitorGarbageCollector.   *)
Init ==
  /\ monitor = FALSE /\ mReady = FALSE /\ mThread = FALSE /\ failed = FALSE
  /\ inMode \in Modes /\ outMode = inMode
  /\ inNTSC_PAL = -1 /\ outNTSC_PAL = outMode
  /\ requests = {} /\ mutex = "free" /\ garbageThreadQuit = FALSE
  /\ srv = [p \in Threads |-> "none"]
  /\ cmd = "idle" /\ gc = "loop" /\ mpc = "none"
  /\ enc = "closed"
  /\ alive = Pids /\ raced = FALSE

Collector == GcCheck \/ GcWait \/ GcGap \/ GcTimeout \/ Service("gc")
Loop == LoopTest \/ LoopGet
Continue == CommandReturns \/ InternalReturns \/ StopSignal \/ StopJoin \/ Service("cmd")

Call ==
  \/ \E pid \in Pids : SrvStopMonitor(pid) \/ SrvStartMonitor(pid)
  \/ \E mode \in InModes : SetInputMode(mode)
  \/ \E mode \in OutModes : SetOutputMode(mode)
  \/ StopServer

Environment == GcSpuriousWakeup \/ \E pid \in Pids : Exit(pid) \/ Spawn(pid)

Next == Collector \/ Loop \/ Continue \/ Call \/ Environment

(* Threads that are not blocked run.  The mutex is strongly fair: between   *)
(* two commands the command thread sleeps in select, and the collector gets *)
(* its turn.                                                                *)
Fairness ==
  /\ WF_vars(Continue) /\ WF_vars(Loop)
  /\ WF_vars(GcWait \/ GcTimeout \/ Service("gc"))
  /\ SF_vars(GcCheck) /\ SF_vars(GcGap)

Spec == Init /\ [][Next]_vars /\ Fairness

-----------------------------------------------------------------------------
(* Properties                                                               *)

ServiceLabels == {"none", "stop", "join", "finish", "start", "activate", "init",
                  "create", "record", "return"}

FlagTypes ==
  /\ monitor \in BOOLEAN /\ mReady \in BOOLEAN /\ mThread \in BOOLEAN
  /\ failed \in BOOLEAN /\ raced \in BOOLEAN /\ garbageThreadQuit \in BOOLEAN

ModeTypes ==
  /\ inNTSC_PAL \in {-1, 0, 1} /\ outNTSC_PAL \in {-1, 0, 1}
  /\ inMode \in Modes /\ outMode \in Modes

PlaceTypes ==
  /\ requests \in SUBSET Pids /\ alive \in SUBSET Pids
  /\ cmd \in {"idle", "SrvStopMonitor", "SrvStartMonitor", "SrvStartMonitorInternal",
              "signal", "join", "off"}
  /\ gc \in {"loop", "start", "wait", "gap", "timed", "done"}
  /\ mpc \in {"none", "test", "get", "done"}
  /\ enc \in {"closed", "started", "bad"}

ServiceTypes == srv \in [Threads -> ServiceLabels]

MutexHeld ==
  mutex = IF gc = "start" THEN "gc"
          ELSE IF cmd \in {"SrvStopMonitor", "SrvStartMonitor"} THEN "cmd" ELSE "free"

(* The statics and the threads keep their types, and garbageMutex is held    *)
(* exactly while a thread stands where the code holds it.                    *)
TypeOK == FlagTypes /\ ModeTypes /\ PlaceTypes /\ ServiceTypes /\ MutexHeld

(* The encoder input is opened only when closed and closed only when open,  *)
(* and mLoop fetches frames only from an open one, however the two threads  *)
(* take turns: until both have been in start_srv or stop_srv at once, which *)
(* is the only way out of turn there is.                                    *)
InputProtocol == ~raced => enc # "bad"

(* "blocking any other request to start/stop the monitor until we are done": *)
(* the same of every daemon, whatever a client asks it.                      *)
InputAlone == enc # "bad"

(* When nobody is inside start_srv or stop_srv, what monitor says is true:  *)
(* the encoder input is open and a thread pumps frames, or neither, also    *)
(* after a start that failed half way.                                      *)
MonitorAgrees ==
  ~raced /\ (\A p \in Threads : srv[p] \in Quiet) =>
    /\ monitor <=> enc = "started"
    /\ monitor <=> mpc \in {"test", "get"}

(* "monitor will NEVER restart until this application exits": while a request *)
(* stands the monitor is off or on its way down, and it stands until its own  *)
(* process withdraws it or dies, or the server ends.                          *)
SuppressionHolds ==
  /\ [](requests # {} => ~monitor \/ cmd = "SrvStopMonitor")
  /\ [][\A pid \in requests \ requests' :
          pid \notin alive \/ SrvStartMonitor(pid) \/ StopJoin]_vars

(* When the last process that suppresses the monitor is gone, the monitor   *)
(* comes back, unless it fails to start, another request arrives, the       *)
(* server is stopped, or the two threads have raced.                        *)
MonitorComesBack ==
  requests \cap alive = {} ~>
    monitor \/ failed \/ requests \cap alive # {} \/ garbageThreadQuit \/ raced

(* The collector notices CMD_STOP_SERVER wherever it stands, and the daemon *)
(* is not stuck in pthread_join.                                            *)
ServerStops == garbageThreadQuit ~> cmd = "off"

=============================================================================
