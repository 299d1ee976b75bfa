----------------------------- MODULE Foreground -----------------------------
(***************************************************************************)
(* The foreground program (cmd/fleetconnect/main.go), which is the Linux    *)
(* service: configuration, start, the wait for a stop from a signal or from *)
(* the dashboard, and the exit code, under the unit file of                 *)
(* installer/linux/fleetconnect.service.  It owns the Manager: of Manager's *)
(* owner actions it takes the ones runForeground calls, in its order.       *)
(* systemd and the person at the machine are external.                      *)
(***************************************************************************)
EXTENDS Manager

VARIABLES
  proc,      \* where runForeground is
  exitCode,  \* -1 while it runs
  signal,    \* ctx of signal.NotifyContext is done
  file,      \* config.yaml: "absent", "good", or "bad" (agent.New rejects it)
  unit       \* the unit, as systemd sees it

fgVars  == <<proc, exitCode, signal, file, unit>>
allVars == <<vars, fgVars>>

Procs == {"setup", "new", "start", "starting", "notify", "serve", "stop", "stopping", "exited"}
Files == {"absent", "good", "bad"}
Units == {"active", "deactivating", "inactive", "failed", "auto-restart"}

FgInit ==
  /\ Init
  /\ proc = "setup" /\ exitCode = -1 /\ signal = FALSE /\ unit = "active"
  /\ file \in Files

-----------------------------------------------------------------------------
\* Where the unit goes when its process exits: Restart=on-failure.
AfterExit(code) ==
  CASE unit = "deactivating" /\ code = 0 -> "inactive"
    [] unit = "deactivating" /\ code # 0 -> "failed"
    [] unit # "deactivating" /\ code = 0 -> "inactive"
    [] OTHER                             -> "auto-restart"

Exit(code) ==
  /\ proc' = "exited"
  /\ exitCode' = code
  /\ unit' = AfterExit(code)
  /\ UNCHANGED signal

Goto(p) == proc' = p /\ UNCHANGED <<exitCode, signal, unit>>

(* ensureConfig: an existing file ends it at once, a missing one runs the       *)
(* wizard (module Wizard: it may return, or fail, beside a file still being     *)
(* written).  An error counts as a failure only if no stop signal has come.     *)
EnsureConfig ==
  /\ proc = "setup"
  /\ \/ file # "absent" /\ Goto("new") /\ UNCHANGED file
     \/ file = "absent" /\ file' \in {"good", "bad"} /\ Goto("new")
     \/ /\ file' \in (IF file = "absent" THEN Files ELSE {file})
        /\ Exit(IF signal THEN 0 ELSE 1)
  /\ UNCHANGED vars

\* agent.New, which does not look at ctx.
NewApp ==
  /\ proc = "new"
  /\ \/ file = "good" /\ Goto("start")
     \/ Exit(1)
  /\ UNCHANGED <<vars, file>>

AppStart == proc = "start" /\ Start /\ Goto("starting") /\ UNCHANGED file

AppStarted ==
  /\ proc = "starting"
  /\ StartConnected \/ StartBudget
  /\ Goto("notify") /\ UNCHANGED file

\* app.Start returns ctx.Err(), and every error of it is the exit code of a failure.
AppStartInterrupted ==
  /\ proc = "starting" /\ signal
  /\ StartCtxDone
  /\ Exit(1) /\ UNCHANGED file

\* notifyReady
Notify == proc = "notify" /\ Goto("serve") /\ UNCHANGED <<vars, file>>

\* Variants: a case of the select missing, or left without Stop, cleanly or as a failure.
ServeIgnores == FALSE
ServeStopReturns == proc = "serve" /\ stopRequested > 0 /\ Exit(0) /\ UNCHANGED <<vars, file>>
ServeStopFails   == proc = "serve" /\ stopRequested > 0 /\ Exit(1) /\ UNCHANGED <<vars, file>>

\* The steady-state select; its ticker only logs.
ServeSignal == proc = "serve" /\ signal /\ Goto("stop") /\ UNCHANGED <<vars, file>>
ServeStopRequested ==
  /\ proc = "serve" /\ stopRequested > 0
  /\ Goto("stop") /\ UNCHANGED <<vars, file>>

\* stopAndExit: Stop with thirty seconds, and its error as the exit code.
AppStop        == proc = "stop" /\ StopCall /\ Goto("stopping") /\ UNCHANGED file
AppStopped     == proc = "stopping" /\ StopDone /\ Exit(0) /\ UNCHANGED file
AppStopExpired == proc = "stopping" /\ StopDeadline /\ Exit(1) /\ UNCHANGED file

Program ==
  \/ EnsureConfig \/ NewApp \/ AppStart \/ AppStarted \/ AppStartInterrupted \/ Notify
  \/ ServeSignal \/ ServeStopRequested \/ AppStop \/ AppStopped \/ AppStopExpired

-----------------------------------------------------------------------------
\* systemctl stop, which marks the unit, or a signal from elsewhere, which does not.
Signal ==
  /\ proc # "exited"
  /\ signal' = TRUE
  /\ unit' \in {unit, "deactivating"}
  /\ UNCHANGED <<vars, proc, exitCode, file>>

\* A new process: nothing of the old one is left but the configuration file.
Restart ==
  /\ unit = "auto-restart"
  /\ runPc' = "idle" /\ agent' = NoAgent /\ idx' = 0 /\ err' = "nil" /\ wait' = 0
  /\ backoff' = Base
  /\ status' = [state |-> "connecting", lastError |-> "nil", endpoints |-> <<>>]
  /\ restart' = NoAgent /\ stopRequested' = 0 /\ firstConnect' = 0
  /\ canceled' = FALSE /\ startPc' = "idle" /\ stopPc' = "idle"
  /\ session' = [a \in Agents |-> "none"]
  /\ disconnected' = "empty"
  /\ rpc' = [i \in RPCIds |-> NoRPC]
  /\ failures' = 0 /\ stopBetween' = FALSE
  /\ proc' = "setup" /\ exitCode' = -1 /\ signal' = FALSE /\ unit' = "active"
  /\ UNCHANGED file

\* The goroutines of a process run as long as it does.
Background == proc # "exited" /\ (Call \/ Local \/ SDK) /\ UNCHANGED fgVars

\* systemd leaves the unit as it is.
Halted == unit \in {"inactive", "failed"} /\ UNCHANGED allVars

FgNext == Program \/ Background \/ Signal \/ Restart \/ Halted

FgSpec == FgInit /\ [][FgNext]_allVars

(* The scheduler runs the main goroutine, whose waits end (the timers of Start *)
(* and Stop fire, the wizard is answered or canceled), and run as in Manager.  *)
FgFairness ==
  /\ WF_allVars(Program)
  /\ WF_allVars(Background /\ Local)
  /\ WF_allVars(Background /\ canceled /\ Call)

FgFairSpec == FgSpec /\ FgFairness

-----------------------------------------------------------------------------
FgTypeOK ==
  /\ TypeOK
  /\ proc \in Procs
  /\ exitCode \in {-1, 0, 1}
  /\ signal \in BOOLEAN
  /\ file \in Files
  /\ unit \in Units

(* A clean exit leaves no session behind: whatever ended the program with code *)
(* zero, run had returned and disconnected its Agent, or never began.          *)
CleanExitLeavesNothing == exitCode = 0 => OpenSessions = {} /\ runPc \in {"idle", "exited"}

(* A stop from the dashboard is not undone by Restart=on-failure (the comment  *)
(* in runForeground): the unit restarts after one only if Stop ran out of its  *)
(* thirty seconds, or a signal interrupted the start.                          *)
DashboardStopSticks ==
  unit = "auto-restart" /\ stopRequested > 0 => stopPc = "expired" \/ startPc = "ctxErr"

(* "a routine stop, not a startup failure" (the comment in runForeground): a   *)
(* stop signal is not answered with the exit code of a failure while the       *)
(* program waits for the first connection either.                              *)
StopDuringStartIsClean == [][proc = "starting" /\ signal => exitCode' # 1]_allVars

(* A stop signal ends the program, in every phase it may come in.              *)
SignalEndsProgram == signal ~> proc = "exited"

(* A stop from the dashboard ends it too, also one that comes while app.Start  *)
(* has not returned yet and nobody is listening.                               *)
DashboardStopEndsProgram == stopRequested > 0 ~> proc = "exited"

=============================================================================
