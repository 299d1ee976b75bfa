--------------------------- MODULE WindowsService ---------------------------
(***************************************************************************)
(* The Windows service (cmd/fleetconnect/service_windows.go): Execute, which *)
(* owns the Manager, and the status it reports to the service control        *)
(* manager, with checkpoints while the wizard runs and while Stop does.      *)
(* It takes Manager's owner actions in Execute's order.  Its ctx is never    *)
(* done before it returns.  The SCM is external: it delivers one control at  *)
(* a time, and Stop only to a service whose last report accepts it.          *)
(***************************************************************************)
EXTENDS Manager

CONSTANT MaxCheckpoint   \* a bound on the checkpoints reported

ASSUME CheckpointAssumption == MaxCheckpoint \in Nat \ {0}

VARIABLES
  proc,      \* where Execute is
  exitCode,  \* what it returns, -1 while it runs
  scm,       \* the last status reported
  control,   \* the control the SCM wants to deliver
  wizard,    \* the goroutine that runs ensureConfig
  file       \* config.yaml: "absent", "good", or "bad" (agent.New rejects it)

wsVars  == <<proc, exitCode, scm, control, wizard, file>>
allVars == <<vars, wsVars>>

Procs    == {"boot", "ensure", "new", "start", "starting", "serve", "stop", "stopping", "exited"}
Files    == {"absent", "good", "bad"}
Controls == {"none", "interrogate", "stop"}
Wizards  == {"idle", "running", "ok", "failed"}
Reports  == [state : {"startPending", "running", "stopPending", "stopped"},
             checkpoint : 0 .. MaxCheckpoint]

Report(s, c) == [state |-> s, checkpoint |-> c]

WsInit ==
  /\ Init
  /\ proc = "boot" /\ exitCode = -1
  /\ scm = Report("startPending", 0)
  /\ control = "none" /\ wizard = "idle"
  /\ file \in Files

Goto(p) == proc' = p /\ UNCHANGED <<exitCode, wizard>>

\* Report the stop, then return.
Exit(code) ==
  /\ scm' = Report("stopped", 0)
  /\ proc' = "exited" /\ exitCode' = code
  /\ UNCHANGED wizard

Tick(s) ==
  /\ scm.checkpoint < MaxCheckpoint
  /\ scm' = Report(s, IF scm.state = s THEN scm.checkpoint + 1 ELSE 1)
  /\ UNCHANGED <<vars, proc, exitCode, control, wizard, file>>

-----------------------------------------------------------------------------
(* Execute, up to the report that the service runs. *)

\* The platform handler is opened and the wizard's goroutine started.
Boot ==
  /\ proc = "boot"
  /\ \/ proc' = "ensure" /\ wizard' = "running" /\ UNCHANGED <<exitCode, scm>>
     \/ Exit(1)
  /\ UNCHANGED <<vars, control, file>>

\* ensureConfig, as in Foreground, but with a ctx that is never done.
EnsureConfig ==
  /\ wizard = "running"
  /\ \/ wizard' = "ok" /\ file' \in (IF file = "absent" THEN {"good", "bad"} ELSE {file})
     \/ wizard' = "failed" /\ file' \in (IF file = "absent" THEN Files ELSE {file})
  /\ UNCHANGED <<vars, proc, exitCode, scm, control>>

EnsureTick == proc = "ensure" /\ Tick("startPending")

Ensured ==
  /\ proc = "ensure"
  /\ \/ wizard = "ok" /\ Goto("new") /\ UNCHANGED scm
     \/ wizard = "failed" /\ Exit(1)
  /\ UNCHANGED <<vars, control, file>>

NewApp ==
  /\ proc = "new"
  /\ \/ file = "good" /\ Goto("start") /\ UNCHANGED scm
     \/ Exit(1)
  /\ UNCHANGED <<vars, control, file>>

AppStart == proc = "start" /\ Start /\ Goto("starting") /\ UNCHANGED <<scm, control, file>>

\* Variant: Start without its budget.
AppStartedConnected ==
  /\ proc = "starting" /\ StartConnected
  /\ scm' = Report("running", 0)
  /\ Goto("serve") /\ UNCHANGED <<control, file>>

AppStarted ==
  /\ proc = "starting"
  /\ StartConnected \/ StartBudget
  /\ scm' = Report("running", 0)
  /\ Goto("serve") /\ UNCHANGED <<control, file>>

-----------------------------------------------------------------------------
(* The control loop, and stopServiceCheckpointed. *)

\* Variants of the dashboard's case: missing, and without a report to the SCM.
ServeIgnores == FALSE
ServeStopUnreported ==
  /\ proc = "serve" /\ stopRequested > 0
  /\ proc' = "exited" /\ exitCode' = 0
  /\ UNCHANGED <<vars, scm, control, wizard, file>>

ServeStopRequested ==
  /\ proc = "serve" /\ stopRequested > 0
  /\ Goto("stop") /\ UNCHANGED <<vars, scm, control, file>>

\* Answered with the last status reported.
ServeInterrogate ==
  /\ proc = "serve" /\ control = "interrogate"
  /\ control' = "none"
  /\ UNCHANGED <<vars, proc, exitCode, scm, wizard, file>>

ServeStop ==
  /\ proc = "serve" /\ control = "stop"
  /\ control' = "none"
  /\ Goto("stop") /\ UNCHANGED <<vars, scm, file>>

\* doStop's goroutine: Stop with twenty-five seconds, its error only logged.
AppStop == proc = "stop" /\ StopCall /\ Goto("stopping") /\ UNCHANGED <<scm, control, file>>
AppStopReturns ==
  /\ proc = "stopping"
  /\ StopDone \/ StopDeadline
  /\ UNCHANGED wsVars

StopTick == proc = "stopping" /\ Tick("stopPending")

\* Variant: reported when asked to, not when done.
StoppedAtOnce ==
  /\ proc = "stopping"
  /\ Exit(0)
  /\ UNCHANGED <<vars, control, file>>

Stopped ==
  /\ proc = "stopping" /\ stopPc # "waiting"
  /\ Exit(0)
  /\ UNCHANGED <<vars, control, file>>

-----------------------------------------------------------------------------
Execute ==
  \/ Boot \/ Ensured \/ NewApp \/ AppStart \/ AppStarted
  \/ ServeStopRequested \/ ServeInterrogate \/ ServeStop
  \/ AppStop \/ AppStopReturns \/ Stopped

Control ==
  /\ control = "none" /\ scm.state # "stopped"
  /\ control' \in {"interrogate"} \cup (IF scm.state = "running" THEN {"stop"} ELSE {})
  /\ UNCHANGED <<vars, proc, exitCode, scm, wizard, file>>

\* The goroutines of a process run as long as it does.
Background == proc # "exited" /\ (Call \/ Local \/ SDK) /\ UNCHANGED wsVars

WsNext ==
  \/ Execute \/ (proc # "exited" /\ EnsureConfig) \/ EnsureTick \/ StopTick
  \/ Control \/ Background

WsSpec == WsInit /\ [][WsNext]_allVars

(* Execute's goroutine is scheduled and its timers fire; ensureConfig returns  *)
(* at once if the file is there, and run is scheduled as in Manager.  A select *)
(* picks among its ready cases at random, so interrogations do not keep a stop *)
(* out forever.  Nothing is assumed of the person at the wizard, or of calls   *)
(* into the SDK while runCtx is not done.                                      *)
WsFairness ==
  /\ WF_allVars(Execute)
  /\ WF_allVars(ServeStopRequested) /\ WF_allVars(ServeStop)
  /\ WF_allVars(file # "absent" /\ EnsureConfig)
  /\ WF_allVars(Background /\ Local)
  /\ WF_allVars(Background /\ canceled /\ Call)

WsFairSpec == WsSpec /\ WsFairness

-----------------------------------------------------------------------------
WsTypeOK ==
  /\ TypeOK
  /\ proc \in Procs /\ exitCode \in {-1, 0, 1}
  /\ scm \in Reports /\ control \in Controls
  /\ wizard \in Wizards /\ file \in Files

(* "a self-initiated stop the SCM didn't ask for looks like an unexpected      *)
(* exit" (Execute): however Execute returns, the last thing it reported is     *)
(* that the service has stopped, so the restart policy does not relaunch it.   *)
NeverLooksLikeACrash == proc = "exited" => scm.state = "stopped"

(* A service reported as stopped holds no session, unless its twenty-five      *)
(* seconds were over first.                                                    *)
StoppedHoldsNothing ==
  scm.state = "stopped" /\ stopPc # "expired" => OpenSessions = {} /\ runPc \in {"idle", "exited"}

(* "so a Windows SCM start callback isn't blocked forever" (Start): with a     *)
(* configuration in place the start pending ends, also if no call into the SDK *)
(* ever returns.                                                               *)
StartEnds == file # "absent" ~> scm.state \in {"running", "stopped"}

(* A stop, of the SCM or of the dashboard, is followed by the report that the  *)
(* service has stopped, even if the Manager does not stop.                     *)
StopIsReported == (control = "stop" \/ stopRequested > 0) ~> scm.state = "stopped"

=============================================================================
