------------------------ MODULE WindowsServiceProofs ------------------------
(***************************************************************************)
(* Theorems about WindowsService, on top of those about Manager.            *)
(***************************************************************************)
EXTENDS WindowsService, ManagerProofs

\* Before Start the Manager is untouched, and no dashboard can call.
NotStarted ==
  proc \in {"boot", "ensure", "new", "start"} =>
    runPc = "idle" /\ \A i \in RPCIds : rpc[i] = NoRPC

\* The service is reported as stopped when Execute returns, and never before.
ReportedOnExit == proc = "exited" <=> scm.state = "stopped"

\* Execute returns without a Start, or after a Stop that has answered.
StopAnswered ==
  /\ proc = "stopping" => stopPc # "idle"
  /\ proc = "exited" => runPc \in {"idle", "exited"} \/ stopPc = "expired"

WsInv == IInv /\ WsTypeOK /\ NotStarted /\ ReportedOnExit /\ StopAnswered

-----------------------------------------------------------------------------
LEMMA WsInitInv == WsInit => WsInv
<1> SUFFICES ASSUME WsInit PROVE WsInv
  OBVIOUS
<1>1. IInv
  BY InitIInv DEF WsInit
<1>2. WsTypeOK
  BY <1>1, CheckpointAssumption
     DEF WsInit, IInv, WsTypeOK, Procs, Reports, Report, Controls, Wizards
<1>3. NotStarted /\ ReportedOnExit /\ StopAnswered
  BY DEF WsInit, Init, NotStarted, ReportedOnExit, StopAnswered, Report
<1> QED
  BY <1>1, <1>2, <1>3 DEF WsInv

\* Execute, the SCM and the wizard leave the Manager alone but for its owner's actions.
LEMMA WsStepsManager == [WsNext]_allVars => [Next]_vars
<1>1. Execute => [Next]_vars
  BY DEF Execute, Boot, Ensured, NewApp, AppStart, AppStarted, ServeStopRequested,
         ServeInterrogate, ServeStop, AppStop, AppStopReturns, Stopped, Next, Owner
<1>2. EnsureConfig \/ EnsureTick \/ StopTick \/ Control \/ Background => [Next]_vars
  BY DEF EnsureConfig, EnsureTick, StopTick, Tick, Control, Background, Next
<1>3. UNCHANGED allVars => UNCHANGED vars
  BY DEF allVars
<1> QED
  BY <1>1, <1>2, <1>3 DEF WsNext

LEMMA WsStepIInv == IInv /\ [WsNext]_allVars => IInv'
BY WsStepsManager, StepIInv

LEMMA WsStepTypes == WsTypeOK /\ [WsNext]_allVars /\ TypeOK' => WsTypeOK'
<1> SUFFICES ASSUME WsTypeOK, [WsNext]_allVars, TypeOK' PROVE WsTypeOK'
  OBVIOUS
<1> USE CheckpointAssumption
    DEF WsTypeOK, Procs, Files, Wizards, Controls, Reports, Report, wsVars
<1>1. CASE Boot \/ Ensured \/ NewApp \/ AppStart \/ AppStarted
  BY <1>1 DEF Boot, Ensured, NewApp, AppStart, AppStarted, Goto, Exit
<1>2. CASE ServeStopRequested \/ ServeInterrogate \/ ServeStop
  BY <1>2 DEF ServeStopRequested, ServeInterrogate, ServeStop, Goto
<1>3. CASE AppStop \/ AppStopReturns \/ Stopped
  BY <1>3 DEF AppStop, AppStopReturns, Stopped, Goto, Exit
<1>4. CASE EnsureTick \/ StopTick
  BY <1>4 DEF EnsureTick, StopTick, Tick
<1>5. CASE EnsureConfig \/ Control \/ Background \/ UNCHANGED allVars
  BY <1>5 DEF EnsureConfig, Control, Background, allVars
<1> QED
  BY <1>1, <1>2, <1>3, <1>4, <1>5 DEF WsNext, Execute

\* Whatever the Manager does by itself, a Stop that was called has been called.
LEMMA BackgroundKeepsStop == Call \/ Local \/ SDK => UNCHANGED stopPc
BY DEF Call, BuildAgent, ConnectAgent, ForwardEndpoint, Local, LoopTop, Announce, Publish,
       SignalFirst, ServeCanceled, ServeDisconnected, ServeRestart, Teardown, Returned,
       BackoffWake, CloseDone, SDK, SessionDrops, DeliverEvent, RPCArrives, HandleRPC, ownerVars

LEMMA WsStepInv == WsInv /\ [WsNext]_allVars => WsInv'
<1> SUFFICES ASSUME WsInv, [WsNext]_allVars PROVE WsInv'
  OBVIOUS
<1>1. IInv' /\ WsTypeOK'
  BY WsStepIInv, WsStepTypes DEF WsInv, IInv
<1>2. stopPc = "ok" => runPc = "exited"
  BY DEF WsInv, IInv, RunInv, CancelByPc
<1> USE DEF WsInv, NotStarted, ReportedOnExit, StopAnswered, Report, wsVars,
            runVars, chanVars, ownerVars, sdkVars, auxVars
<1>3. CASE Boot \/ Ensured \/ NewApp
  BY <1>1, <1>3 DEF Boot, Ensured, NewApp, Goto, Exit, vars
<1>4. CASE AppStart
  BY <1>1, <1>4 DEF AppStart, Start, Goto
<1>5. CASE AppStarted
  BY <1>1, <1>5 DEF AppStarted, StartConnected, StartBudget, StartReturns, Goto
<1>6. CASE ServeStopRequested \/ ServeInterrogate \/ ServeStop
  BY <1>1, <1>6 DEF ServeStopRequested, ServeInterrogate, ServeStop, Goto, vars
<1>7. CASE AppStop
  BY <1>1, <1>7 DEF AppStop, StopCall, Goto
<1>8. CASE AppStopReturns
  BY <1>1, <1>8 DEF AppStopReturns, StopDone, StopDeadline, StopReturns
<1>9. CASE Stopped
  BY <1>1, <1>2, <1>9 DEF Stopped, Exit, vars, WsTypeOK, TypeOK
<1>10. CASE EnsureTick \/ StopTick
  BY <1>1, <1>10 DEF EnsureTick, StopTick, Tick, vars
<1>11. CASE Background
  <2>1. proc \notin {"boot", "ensure", "new", "start", "exited"}
    BY <1>11, IdleManager DEF Background
  <2> QED
    BY <1>1, <1>11, <2>1, BackgroundKeepsStop DEF Background
<1>12. CASE EnsureConfig \/ Control
  BY <1>1, <1>12 DEF EnsureConfig, Control, vars
<1>13. CASE UNCHANGED allVars
  BY <1>1, <1>13 DEF allVars, vars
<1> QED
  BY <1>3, <1>4, <1>5, <1>6, <1>7, <1>8, <1>9, <1>10, <1>11, <1>12, <1>13
     DEF WsNext, Execute

LEMMA WsInductive == WsSpec => []WsInv
BY WsInitInv, WsStepInv, PTL DEF WsSpec

-----------------------------------------------------------------------------
\* However Execute returns, the last thing it reported is that the service has stopped.
THEOREM NoCrashLook == WsSpec => []NeverLooksLikeACrash
<1>1. WsInv => NeverLooksLikeACrash
  BY DEF WsInv, ReportedOnExit, NeverLooksLikeACrash
<1> QED
  BY <1>1, WsInductive, PTL

\* A service reported as stopped holds no session, unless its time to stop was over first.
THEOREM StoppedHolds == WsSpec => []StoppedHoldsNothing
<1>1. ASSUME WsInv PROVE StoppedHoldsNothing
  BY <1>1, NothingHeld
     DEF WsInv, ReportedOnExit, StopAnswered, StoppedHoldsNothing, HoldingPcs
<1> QED
  BY <1>1, WsInductive, PTL

(* The service runs the Manager: seen from its variables alone, every behaviour *)
(* of Execute, the SCM, the wizard and the goroutines is one of the Manager's.   *)
THEOREM ServiceRunsManager == WsSpec => Spec
<1>1. WsInit => Init
  BY DEF WsInit
<1> QED
  BY <1>1, WsStepsManager, PTL DEF WsSpec, Spec

(* What the Manager promises an owner it therefore promises the service: the    *)
(* invariants of Manager, a stop that is near and final, and Supervisor's promise. *)
THEOREM ServicePromises ==
  WsSpec => /\ [](/\ NoLeakedSession /\ ConnectedMeansForwarding /\ StopMeansQuiescent
                  /\ StopBetweenAttempts /\ NoDoubleClose /\ StopIsNotAnError)
            /\ StoppedIsFinal
            /\ StopCountsDown
            /\ ImplementsSupervisor
BY ServiceRunsManager, NoLeak, Connected, StopQuiescent, StopBetween, CloseAtMostOnce,
   StopNotAnError, StoppedFinal, StopCountdown, Refinement, PTL

=============================================================================
