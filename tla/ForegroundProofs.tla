-------------------------- MODULE ForegroundProofs --------------------------
(***************************************************************************)
(* Theorems about Foreground, on top of those about Manager: what the       *)
(* program and its unit do never takes a Manager out of its invariant, a    *)
(* restart included, which begins it anew.                                  *)
(***************************************************************************)
EXTENDS Foreground, ManagerProofs

\* Before Start the Manager is untouched, and no dashboard can call.
NotStarted ==
  proc \in {"setup", "new", "start"} =>
    /\ runPc = "idle" /\ stopRequested = 0
    /\ \A i \in RPCIds : rpc[i] = NoRPC

\* What the exit code and the unit say of the process.
Exits ==
  /\ proc # "exited" => exitCode = -1 /\ unit # "auto-restart"
  /\ exitCode = 0 => proc = "exited" /\ runPc \in {"idle", "exited"}

FgInv == IInv /\ FgTypeOK /\ NotStarted /\ Exits /\ DashboardStopSticks

-----------------------------------------------------------------------------
\* A restarted program begins with a Manager in its initial state.
LEMMA RestartInit == Restart => Init'
BY DEF Restart, Init

\* A step of the program, a signal or a goroutine is a step of Manager or none.
LEMMA FgStepsManager == [FgNext]_allVars => [Next]_vars \/ Init'
<1>1. Program => [Next]_vars
  BY DEF Program, EnsureConfig, NewApp, AppStart, AppStarted, AppStartInterrupted, Notify,
         ServeSignal, ServeStopRequested, AppStop, AppStopped, AppStopExpired, Next, Owner
<1>2. Background \/ Signal \/ Halted => [Next]_vars
  BY DEF Background, Signal, Halted, allVars, Next
<1>3. UNCHANGED allVars => UNCHANGED vars
  BY DEF allVars
<1> QED
  BY <1>1, <1>2, <1>3, RestartInit DEF FgNext

LEMMA FgStepIInv == IInv /\ [FgNext]_allVars => IInv'
<1>1. Init' => IInv'
  BY InitIInv, PTL
<1> QED
  BY <1>1, FgStepsManager, StepIInv

LEMMA FgInitInv == FgInit => FgInv
<1> SUFFICES ASSUME FgInit PROVE FgInv
  OBVIOUS
<1>1. IInv
  BY InitIInv DEF FgInit
<1>2. FgTypeOK
  BY <1>1 DEF FgInit, IInv, FgTypeOK, Procs, Units
<1>3. NotStarted /\ Exits /\ DashboardStopSticks
  BY DEF FgInit, Init, NotStarted, Exits, DashboardStopSticks
<1> QED
  BY <1>1, <1>2, <1>3 DEF FgInv

LEMMA FgStepTypes == FgTypeOK /\ [FgNext]_allVars /\ TypeOK' => FgTypeOK'
<1> SUFFICES ASSUME FgTypeOK, [FgNext]_allVars, TypeOK' PROVE FgTypeOK'
  OBVIOUS
<1> USE DEF FgTypeOK, Procs, Files, Units, fgVars
<1>1. CASE EnsureConfig \/ NewApp
  BY <1>1 DEF EnsureConfig, NewApp, Goto, Exit, AfterExit
<1>2. CASE AppStart \/ AppStarted \/ Notify \/ ServeSignal \/ ServeStopRequested \/ AppStop
  BY <1>2 DEF AppStart, AppStarted, Notify, ServeSignal, ServeStopRequested, AppStop, Goto
<1>3. CASE AppStartInterrupted \/ AppStopped \/ AppStopExpired
  BY <1>3 DEF AppStartInterrupted, AppStopped, AppStopExpired, Exit, AfterExit
<1>4. CASE Background \/ Signal \/ Restart \/ Halted \/ UNCHANGED allVars
  BY <1>4 DEF Background, Signal, Restart, Halted, allVars
<1> QED
  BY <1>1, <1>2, <1>3, <1>4 DEF FgNext, Program

LEMMA FgStepInv == FgInv /\ [FgNext]_allVars => FgInv'
<1> SUFFICES ASSUME FgInv, [FgNext]_allVars PROVE FgInv'
  OBVIOUS
<1>1. IInv' /\ FgTypeOK'
  BY FgStepIInv, FgStepTypes DEF FgInv, IInv
<1> USE DEF FgInv, FgTypeOK, Procs, Units, NotStarted, Exits, DashboardStopSticks,
            fgVars, runVars, chanVars, ownerVars, sdkVars, auxVars
<1>2. CASE EnsureConfig \/ NewApp
  <2>1. UNCHANGED vars /\ proc \in {"setup", "new"}
    BY <1>2 DEF EnsureConfig, NewApp
  <2>2. \/ proc' \in {"new", "start"} /\ UNCHANGED <<exitCode, unit>>
        \/ proc' = "exited" /\ exitCode' \in {0, 1}
    BY <1>2 DEF EnsureConfig, NewApp, Goto, Exit
  <2> QED
    BY <1>1, <2>1, <2>2 DEF vars
<1>3. CASE AppStart
  BY <1>1, <1>3 DEF AppStart, Start, Goto
<1>4. CASE AppStarted
  BY <1>1, <1>4 DEF AppStarted, StartConnected, StartBudget, StartReturns, Goto
<1>5. CASE AppStartInterrupted
  BY <1>1, <1>5 DEF AppStartInterrupted, StartCtxDone, StartReturns, Exit, AfterExit
<1>6. CASE Notify \/ ServeSignal \/ ServeStopRequested
  BY <1>1, <1>6 DEF Notify, ServeSignal, ServeStopRequested, Goto, vars
<1>7. CASE AppStop
  BY <1>1, <1>7 DEF AppStop, StopCall, Goto
<1>8. CASE AppStopped
  BY <1>1, <1>8 DEF AppStopped, StopDone, StopReturns, Exit, AfterExit
<1>9. CASE AppStopExpired
  BY <1>1, <1>9 DEF AppStopExpired, StopDeadline, StopReturns, Exit, AfterExit
<1>10. CASE Background
  <2>1. proc \notin {"setup", "new", "start"}
    BY <1>10, IdleManager DEF Background
  <2> QED
    BY <1>1, <1>10, <2>1 DEF Background
<1>11. CASE Signal
  BY <1>1, <1>11 DEF Signal, vars
<1>12. CASE Restart
  BY <1>1, <1>12 DEF Restart
<1>13. CASE UNCHANGED allVars
  BY <1>1, <1>13 DEF allVars, vars
<1> QED
  BY <1>2, <1>3, <1>4, <1>5, <1>6, <1>7, <1>8, <1>9, <1>10, <1>11, <1>12, <1>13
     DEF FgNext, Program, Halted

LEMMA FgInductive == FgSpec => []FgInv
BY FgInitInv, FgStepInv, PTL DEF FgSpec

-----------------------------------------------------------------------------
(* Whatever ended the program with code zero, a restarted one or the first, no *)
(* session is left open and run has returned or never began.                   *)
THEOREM CleanExit == FgSpec => []CleanExitLeavesNothing
<1>1. ASSUME FgInv PROVE CleanExitLeavesNothing
  BY <1>1, NothingHeld DEF FgInv, Exits, CleanExitLeavesNothing, HoldingPcs
<1> QED
  BY <1>1, FgInductive, PTL

(* The unit restarts after a stop from the dashboard only if Stop ran out of   *)
(* its time or a signal interrupted the start.                                 *)
THEOREM DashboardStop == FgSpec => []DashboardStopSticks
<1>1. FgInv => DashboardStopSticks
  BY DEF FgInv
<1> QED
  BY <1>1, FgInductive, PTL

\* The types of the program and of its Manager, over any number of restarts.
THEOREM FgTypeCorrect == FgSpec => []FgTypeOK
<1>1. FgInv => FgTypeOK
  BY DEF FgInv
<1> QED
  BY <1>1, FgInductive, PTL

-----------------------------------------------------------------------------
(* The promises of the Manager hold in the program over any number of          *)
(* restarts, each of which begins a Manager anew: what a process left behind    *)
(* is not found in the state of the next one.                                   *)
THEOREM ForegroundPromises ==
  FgSpec => [](/\ NoLeakedSession /\ ConnectedMeansForwarding /\ StopMeansQuiescent
               /\ StopBetweenAttempts /\ NoDoubleClose /\ StopIsNotAnError)
<1> DEFINE Once == NoDoubleClose /\ StopIsNotAnError
<1>1. FgInit => Once
  BY InitClose, InitStopError DEF FgInit
<1>2. IInv /\ Once /\ [FgNext]_allVars => Once'
  <2>1. Init' => Once'
    <3>1. Init => Once
      BY InitClose, InitStopError
    <3> QED
      BY <3>1, PTL
  <2>2. IInv /\ Once /\ [Next]_vars => Once'
    BY StepClose, StepStopError DEF IInv
  <2> QED
    BY <2>1, <2>2, FgStepsManager
<1>3. FgInv => IInv
  BY DEF FgInv
<1>4. IInv => NoLeakedSession /\ ConnectedMeansForwarding /\ StopMeansQuiescent /\ StopBetweenAttempts
  BY ConnectedByInv, StopByInv DEF IInv
<1> QED
  BY <1>1, <1>2, <1>3, <1>4, FgInductive, PTL DEF FgSpec

(* The pace of the retries too, where the bound on the count of failures is     *)
(* high enough to see the backoff reach its cap.                                *)
THEOREM ForegroundPacing == CountsToCap => (FgSpec => []RetryPacing)
<1> SUFFICES ASSUME CountsToCap PROVE FgSpec => []RetryPacing
  OBVIOUS
<1>1. FgInit => RetryPacing
  BY InitPace DEF FgInit
<1>2. IInv /\ RetryPacing /\ [FgNext]_allVars => RetryPacing'
  <2>1. Init' => RetryPacing'
    BY InitPace, PTL
  <2>2. IInv /\ RetryPacing /\ [Next]_vars => RetryPacing'
    BY StepPace DEF IInv
  <2> QED
    BY <2>1, <2>2, FgStepsManager
<1>3. FgInv => IInv
  BY DEF FgInv
<1> QED
  BY <1>1, <1>2, <1>3, FgInductive, PTL DEF FgSpec

=============================================================================
