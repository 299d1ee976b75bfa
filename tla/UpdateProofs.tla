---------------------------- MODULE UpdateProofs ----------------------------
(***************************************************************************)
(* Theorems of Update, for every set of builds and workers and any number   *)
(* of attempts.  IInv is inductive: InitIInv, StepIInv.                     *)
(***************************************************************************)
EXTENDS Update, TLAPS

IInv ==
  TypeOK /\ LaunchedFileStays /\ OneLaunchPerCall /\ SuccessIsReal /\ RepeatIsExplained /\ UpdateInv

\* What a start reports, of a marker with its history.
LEMMA ReportedIs ==
  ASSUME TypeOK, MarkerInv, running = installed
  PROVE  /\ Reported(running) \in ReportKinds
         /\ Reported(running) = "succeeded" => since = "replaced"
         /\ Reported(running) \in {"succeeded", "noEffect"} => marker \notin {NoMarker, Torn}
<1>1. Reported(running) \in ReportKinds
  BY DEF Reported, ReportKinds
<1>2. ASSUME Reported(running) \in {"succeeded", "noEffect"}
      PROVE  marker \notin {NoMarker, Torn}
  BY <1>2 DEF Reported
<1>3. ASSUME Reported(running) = "succeeded"
      PROVE  since = "replaced"
  <2>1. marker \notin {NoMarker, Torn} /\ installed # marker.prev
    BY <1>3 DEF Reported
  <2>2. marker # Marker(installed)
    BY <2>1 DEF Marker
  <2> QED BY <2>1, <2>2 DEF MarkerInv
<1> QED BY <1>1, <1>2, <1>3

\* The invariant holds of a service that has just started, no update under way.
LEMMA InitIInv == Init => IInv
<1> SUFFICES ASSUME Init PROVE IInv
  OBVIOUS
<1> USE DEF Init
<1>1. TypeOK
  BY UpdateAssumption DEF TypeOK, WorkerPcs, FileStates, InstallerStates, ReportKinds, NoMarker, BootPcs, NoReport
<1>2. LaunchedFileStays /\ OneLaunchPerCall
  BY DEF LaunchedFileStays, OneLaunchPerCall
<1>3. SuccessIsReal /\ RepeatIsExplained
  BY DEF SuccessIsReal, RepeatIsExplained, NoReport
<1>4. UpdateInv
  BY DEF UpdateInv, WorkerInv, InstallerInv, MarkerInv, VerdictInv, Working
<1> QED BY <1>1, <1>2, <1>3, <1>4 DEF IInv

\* A step of a goroutine, or the call that starts it.
LEMMA WorkerStep ==
  ASSUME IInv, NEW w \in Workers, UpdateRPC(w) \/ Step(w)
  PROVE  IInv'
<1> USE UpdateAssumption
    DEF IInv, TypeOK, UpdateInv, WorkerInv, InstallerInv, Working, Down,
        LaunchedFileStays, OneLaunchPerCall, bootVars
<1>1. CASE UpdateRPC(w)
  <2> USE <1>1 DEF UpdateRPC
  <2>1. TypeOK'
    BY DEF WorkerPcs
  <2>2. (LaunchedFileStays /\ OneLaunchPerCall /\ WorkerInv /\ InstallerInv)'
    OBVIOUS
  <2>3. (SuccessIsReal /\ RepeatIsExplained /\ MarkerInv /\ VerdictInv)'
    BY DEF SuccessIsReal, RepeatIsExplained, MarkerInv, VerdictInv
  <2> QED BY <2>1, <2>2, <2>3
<1>2. CASE Download(w)
  <2> USE <1>2 DEF Download, Fail, Remove
  <2>1. TypeOK'
    BY DEF WorkerPcs, FileStates
  <2>2. (LaunchedFileStays /\ OneLaunchPerCall /\ WorkerInv /\ InstallerInv)'
    OBVIOUS
  <2>3. (SuccessIsReal /\ RepeatIsExplained /\ MarkerInv /\ VerdictInv)'
    BY DEF SuccessIsReal, RepeatIsExplained, MarkerInv, VerdictInv
  <2> QED BY <2>1, <2>2, <2>3
<1>3. CASE Verify(w)
  <2> USE <1>3 DEF Verify, Fail, Remove
  <2>1. TypeOK'
    BY DEF WorkerPcs, FileStates
  <2>2. (LaunchedFileStays /\ OneLaunchPerCall /\ WorkerInv /\ InstallerInv)'
    OBVIOUS
  <2>3. (SuccessIsReal /\ RepeatIsExplained /\ MarkerInv /\ VerdictInv)'
    BY DEF SuccessIsReal, RepeatIsExplained, MarkerInv, VerdictInv
  <2> QED BY <2>1, <2>2, <2>3
<1>4. CASE Launch(w)
  <2> USE <1>4 DEF Launch, Fail, Remove
  <2>1. TypeOK'
    BY DEF WorkerPcs, FileStates, InstallerStates
  <2>2. (LaunchedFileStays /\ OneLaunchPerCall /\ WorkerInv /\ InstallerInv)'
    OBVIOUS
  <2>3. (SuccessIsReal /\ RepeatIsExplained /\ MarkerInv /\ VerdictInv)'
    BY DEF SuccessIsReal, RepeatIsExplained, MarkerInv, VerdictInv
  <2> QED BY <2>1, <2>2, <2>3
<1>5. CASE Record(w)
  <2> USE <1>5 DEF Record, Succeed
  <2>1. TypeOK'
    BY DEF WorkerPcs
  <2>2. (LaunchedFileStays /\ OneLaunchPerCall /\ WorkerInv /\ InstallerInv)'
    OBVIOUS
  <2>3. (SuccessIsReal /\ RepeatIsExplained /\ MarkerInv /\ VerdictInv)'
    BY DEF SuccessIsReal, RepeatIsExplained, MarkerInv, VerdictInv
  <2> QED BY <2>1, <2>2, <2>3
<1>6. CASE WriteMarker(w)
  <2> USE <1>6 DEF WriteMarker, Succeed
  <2>0. running = installed /\ running \in Builds \ {Unversioned}
    OBVIOUS
  <2>1. TypeOK'
    BY <2>0 DEF WorkerPcs
  <2>2. (LaunchedFileStays /\ OneLaunchPerCall /\ WorkerInv /\ InstallerInv)'
    OBVIOUS
  <2>3. (SuccessIsReal /\ RepeatIsExplained /\ MarkerInv /\ VerdictInv)'
    BY <2>0 DEF SuccessIsReal, RepeatIsExplained, MarkerInv, VerdictInv
  <2> QED BY <2>1, <2>2, <2>3
<1>7. CASE Retry(w)
  <2> USE <1>7 DEF Retry
  <2>1. TypeOK'
    BY DEF WorkerPcs
  <2>2. (LaunchedFileStays /\ OneLaunchPerCall /\ WorkerInv /\ InstallerInv)'
    OBVIOUS
  <2>3. (SuccessIsReal /\ RepeatIsExplained /\ MarkerInv /\ VerdictInv)'
    BY DEF SuccessIsReal, RepeatIsExplained, MarkerInv, VerdictInv
  <2> QED BY <2>1, <2>2, <2>3
<1> QED BY <1>1, <1>2, <1>3, <1>4, <1>5, <1>6, <1>7 DEF Step

\* A step of an installer, which stops and starts the process.
LEMMA InstallerStep ==
  ASSUME IInv, NEW w \in Workers, Installer(w)
  PROVE  IInv'
<1> USE UpdateAssumption
    DEF IInv, TypeOK, UpdateInv, WorkerInv, InstallerInv, Working, Down,
        LaunchedFileStays, OneLaunchPerCall, Progress, goVars, bootVars
<1>1. CASE InstallerBegins(w)
  <2> USE <1>1 DEF InstallerBegins
  <2>1. TypeOK'
    BY DEF InstallerStates
  <2>2. (LaunchedFileStays /\ OneLaunchPerCall /\ WorkerInv /\ InstallerInv)'
    OBVIOUS
  <2>3. (SuccessIsReal /\ RepeatIsExplained /\ MarkerInv /\ VerdictInv)'
    BY DEF SuccessIsReal, RepeatIsExplained, MarkerInv, VerdictInv
  <2> QED BY <2>1, <2>2, <2>3
<1>2. CASE InstallerGivesUp(w)
  <2> USE <1>2 DEF InstallerGivesUp
  <2>1. TypeOK'
    BY DEF InstallerStates
  <2>2. (LaunchedFileStays /\ OneLaunchPerCall /\ WorkerInv /\ InstallerInv)'
    OBVIOUS
  <2>3. (SuccessIsReal /\ RepeatIsExplained /\ MarkerInv /\ VerdictInv)'
    BY DEF SuccessIsReal, RepeatIsExplained, MarkerInv, VerdictInv
  <2> QED BY <2>1, <2>2, <2>3
<1>3. CASE InstallerStopsService(w)
  <2> USE <1>3 DEF InstallerStopsService, Die, LeaveMarker
  <2>1. TypeOK'
    BY DEF InstallerStates, WorkerPcs, BootPcs
  <2>2. (LaunchedFileStays /\ OneLaunchPerCall /\ WorkerInv /\ InstallerInv)'
    OBVIOUS
  <2>3. (SuccessIsReal /\ RepeatIsExplained /\ MarkerInv /\ VerdictInv)'
    BY DEF SuccessIsReal, RepeatIsExplained, MarkerInv, VerdictInv
  <2> QED BY <2>1, <2>2, <2>3
<1>4. CASE InstallerSwaps(w)
  <2> USE <1>4 DEF InstallerSwaps
  <2>1. TypeOK'
    BY DEF InstallerStates
  <2>2. (LaunchedFileStays /\ OneLaunchPerCall /\ WorkerInv /\ InstallerInv)'
    OBVIOUS
  <2>3. (SuccessIsReal /\ RepeatIsExplained /\ MarkerInv /\ VerdictInv)'
    BY DEF SuccessIsReal, RepeatIsExplained, MarkerInv, VerdictInv
  <2> QED BY <2>1, <2>2, <2>3
<1>5. CASE InstallerRollsBack(w)
  <2> USE <1>5 DEF InstallerRollsBack
  <2>1. TypeOK'
    BY DEF InstallerStates
  <2>2. (LaunchedFileStays /\ OneLaunchPerCall /\ WorkerInv /\ InstallerInv)'
    OBVIOUS
  <2>3. (SuccessIsReal /\ RepeatIsExplained /\ MarkerInv /\ VerdictInv)'
    BY DEF SuccessIsReal, RepeatIsExplained, MarkerInv, VerdictInv
  <2> QED BY <2>1, <2>2, <2>3
<1>6. CASE InstallerStartsService(w)
  <2> USE <1>6 DEF InstallerStartsService, Boot
  <2>1. TypeOK'
    BY DEF InstallerStates, BootPcs
  <2>2. (LaunchedFileStays /\ OneLaunchPerCall /\ WorkerInv /\ InstallerInv)'
    OBVIOUS
  <2>3. running = Down /\ \A v \in Workers : pc[v] = "idle"
    OBVIOUS
  <2>4. (SuccessIsReal /\ RepeatIsExplained /\ MarkerInv /\ VerdictInv)'
    BY <2>3 DEF SuccessIsReal, RepeatIsExplained, MarkerInv, VerdictInv
  <2> QED BY <2>1, <2>2, <2>4
<1> QED BY <1>1, <1>2, <1>3, <1>4, <1>5, <1>6 DEF Installer

\* An end or a start of the process that no installer brings about.
LEMMA ProcessStep ==
  ASSUME IInv, ProcessEnds \/ ProcessStarts
  PROVE  IInv'
<1> USE UpdateAssumption
    DEF IInv, TypeOK, UpdateInv, WorkerInv, InstallerInv, Working, Down,
        LaunchedFileStays, OneLaunchPerCall, goVars
<1>1. CASE ProcessEnds
  <2> USE <1>1 DEF ProcessEnds, Die, LeaveMarker
  <2>1. TypeOK'
    BY DEF WorkerPcs, BootPcs
  <2>2. (LaunchedFileStays /\ OneLaunchPerCall /\ WorkerInv /\ InstallerInv)'
    OBVIOUS
  <2>3. (SuccessIsReal /\ RepeatIsExplained /\ MarkerInv /\ VerdictInv)'
    BY DEF SuccessIsReal, RepeatIsExplained, MarkerInv, VerdictInv
  <2> QED BY <2>1, <2>2, <2>3
<1>2. CASE ProcessStarts
  <2> USE <1>2 DEF ProcessStarts, Boot
  <2>1. TypeOK'
    BY DEF BootPcs
  <2>2. (LaunchedFileStays /\ OneLaunchPerCall /\ WorkerInv /\ InstallerInv)'
    OBVIOUS
  <2>3. (SuccessIsReal /\ RepeatIsExplained /\ MarkerInv /\ VerdictInv)'
    BY DEF SuccessIsReal, RepeatIsExplained, MarkerInv, VerdictInv
  <2> QED BY <2>1, <2>2, <2>3
<1> QED BY <1>1, <1>2

(* The report of a start and the removal of its marker: a report is true, and  *)
(* what was judged is removed or said to be left.                              *)
LEMMA ReportingStep ==
  ASSUME IInv, Reporting
  PROVE  IInv'
<1> USE DEF bootVars, goVars
<1>1. boot # "done" /\ running = installed
  <2>1. boot # "done" /\ running # Down
    BY DEF Reporting, ReadMarker, RemoveMarker, IInv, UpdateInv, VerdictInv
  <2> QED
    BY <2>1 DEF IInv, UpdateInv, InstallerInv
<1>2. (LaunchedFileStays /\ OneLaunchPerCall /\ WorkerInv /\ InstallerInv)'
  BY DEF IInv, UpdateInv, Reporting, ReadMarker, RemoveMarker, LaunchedFileStays,
         OneLaunchPerCall, WorkerInv, InstallerInv, Working
<1>3. CASE ReadMarker
  <2>1. CASE boot' = "done" /\ report' = NoReport /\ UNCHANGED verdict
    BY <1>1, <1>2, <1>3, <2>1
       DEF ReadMarker, NoReport, IInv, TypeOK, BootPcs, ReportKinds, UpdateInv, SuccessIsReal,
           RepeatIsExplained, MarkerInv, VerdictInv
  <2>2. CASE /\ report' = [kind |-> Reported(running), pending |-> Pending, since |-> since,
                           verdict |-> verdict]
             /\ verdict' = IF Reported(running) = "unparsed" THEN verdict ELSE "given"
             /\ boot' = "remove"
    <3>1. /\ Reported(running) \in ReportKinds
          /\ Reported(running) = "succeeded" => since = "replaced"
          /\ Reported(running) \in {"succeeded", "noEffect"} => marker \notin {NoMarker, Torn}
      BY <1>1, ReportedIs DEF IInv, UpdateInv
    <3>2. Pending \in BOOLEAN /\ boot = "read" /\ UNCHANGED <<running, installed, goVars, marker, installer, since>>
      BY <1>3 DEF Pending, ReadMarker
    <3>3. TypeOK'
      BY <2>2, <3>1, <3>2 DEF IInv, TypeOK, BootPcs
    <3>4. SuccessIsReal' /\ RepeatIsExplained'
      BY <2>2, <3>1, <3>2 DEF SuccessIsReal, RepeatIsExplained, IInv, UpdateInv, VerdictInv
    <3>5. MarkerInv' /\ VerdictInv'
      BY <2>2, <3>2 DEF IInv, UpdateInv, MarkerInv, VerdictInv
    <3> QED
      BY <1>2, <3>3, <3>4, <3>5 DEF IInv, UpdateInv
  <2> QED
    BY <1>3, <2>1, <2>2 DEF ReadMarker
<1>4. CASE RemoveMarker
  <2>1. TypeOK'
    BY <1>4 DEF RemoveMarker, LeaveMarker, IInv, TypeOK, BootPcs
  <2>2. (SuccessIsReal /\ RepeatIsExplained /\ MarkerInv /\ VerdictInv)'
    BY <1>4 DEF RemoveMarker, LeaveMarker, IInv, UpdateInv, SuccessIsReal, RepeatIsExplained,
                MarkerInv, VerdictInv
  <2> QED
    BY <1>2, <2>1, <2>2 DEF IInv, UpdateInv
<1> QED
  BY <1>3, <1>4 DEF Reporting

\* IInv is inductive.
LEMMA StepIInv == IInv /\ [Next]_vars => IInv'
<1> SUFFICES ASSUME IInv, [Next]_vars PROVE IInv'
  OBVIOUS
<1>1. ASSUME NEW w \in Workers, UpdateRPC(w) \/ Step(w)
      PROVE  IInv'
  BY <1>1, WorkerStep
<1>2. ASSUME NEW w \in Workers, Installer(w)
      PROVE  IInv'
  BY <1>2, InstallerStep
<1>3. ASSUME ProcessEnds \/ ProcessStarts
      PROVE  IInv'
  BY <1>3, ProcessStep
<1>4. ASSUME Reporting
      PROVE  IInv'
  BY <1>4, ReportingStep
<1>5. CASE UNCHANGED vars
  BY <1>5 DEF vars, goVars, bootVars, IInv, TypeOK, UpdateInv, WorkerInv, InstallerInv, MarkerInv,
              VerdictInv, LaunchedFileStays, OneLaunchPerCall, SuccessIsReal, RepeatIsExplained
<1> QED BY <1>1, <1>2, <1>3, <1>4, <1>5 DEF Next

\* The inductive invariant holds in every reachable state.
THEOREM Invariance == Spec => []IInv
<1> QED BY InitIInv, StepIInv, PTL DEF Spec

\* Every variable keeps its type; attempt never exceeds RetryAttempts (ApplyWithRetry).
THEOREM UpdateTypeCorrect == Spec => []TypeOK
<1>1. IInv => TypeOK
  BY DEF IInv
<1> QED BY <1>1, Invariance, PTL

(* What an installer was launched from is there, signed, until it has got to   *)
(* work (Apply removes only what it has not launched).                         *)
THEOREM LaunchedStays == Spec => []LaunchedFileStays
<1>1. IInv => LaunchedFileStays
  BY DEF IInv
<1> QED BY <1>1, Invariance, PTL

\* One call launches one installer at most: a launch is never retried (ApplyWithRetry).
THEOREM OneLaunch == Spec => []OneLaunchPerCall
<1>1. IInv => OneLaunchPerCall
  BY DEF IInv
<1> QED BY <1>1, Invariance, PTL

(* A success is reported only after the binary was replaced under the marker   *)
(* (ReportPreviousAttempt), whatever crashes, starts and installers come.      *)
THEOREM SuccessReal == Spec => []SuccessIsReal
<1>1. IInv => SuccessIsReal
  BY DEF IInv
<1> QED BY <1>1, Invariance, PTL

(* A second start judges a marker again only where the first one could not     *)
(* remove it: ReportPreviousAttempt's os.Remove failed, or the process ended   *)
(* before it.                                                                  *)
THEOREM Repeats == Spec => []RepeatIsExplained
<1>1. IInv => RepeatIsExplained
  BY DEF IInv
<1> QED BY <1>1, Invariance, PTL

(* What every program point of a goroutine knows of its file, its launches and *)
(* its process, that one installer at most is at work, that the marker is that  *)
(* of the binary on disk until one replaces it, and that between a verdict and  *)
(* its removal no goroutine runs.                                              *)
THEOREM UpdateInvariant == Spec => []UpdateInv
<1>1. IInv => UpdateInv
  BY DEF IInv
<1> QED BY <1>1, Invariance, PTL

-----------------------------------------------------------------------------
(* What a call can still do *)

(* The most steps the goroutine of a call can still take: four for each attempt *)
(* that is left, and the present one with the marker of a launch.               *)
CallRank(w) ==
  LET left == 4 * (RetryAttempts - attempt[w])
  IN  CASE pc[w] = "download" -> left + 5
        [] pc[w] = "verify"   -> left + 4
        [] pc[w] = "launch"   -> left + 3
        [] pc[w] = "sleep"    -> left + 2
        [] pc[w] = "record"   -> 2
        [] pc[w] = "write"    -> 1
        [] OTHER              -> 0

\* A call is at most 4 * RetryAttempts + 1 steps from its end.
CallIsBounded ==
  \A w \in Workers :
    /\ CallRank(w) \in 0 .. 4 * RetryAttempts + 1
    /\ CallRank(w) = 0 <=> pc[w] = "idle"

\* Its own steps bring it nearer, and only a new call begins the count again.
CallCountsDown ==
  [][\A w \in Workers :
       /\ Step(w) => CallRank(w)' < CallRank(w)
       /\ CallRank(w)' > CallRank(w) => UpdateRPC(w)]_vars

\* What the count of the present attempt says at each program point.
Attempts ==
  \A w \in Workers :
    /\ pc[w] \in {"download", "verify", "launch", "sleep"} => attempt[w] \in 1 .. RetryAttempts
    /\ pc[w] = "sleep" => attempt[w] < RetryAttempts

LEMMA StepAttempts == IInv /\ Attempts /\ [Next]_vars => Attempts'
<1> SUFFICES ASSUME IInv, Attempts, [Next]_vars PROVE Attempts'
  OBVIOUS
<1> USE UpdateAssumption DEF IInv, TypeOK, Attempts, goVars
<1>1. ASSUME NEW w \in Workers, UpdateRPC(w) PROVE Attempts'
  BY <1>1 DEF UpdateRPC
<1>2. ASSUME NEW w \in Workers, Download(w) \/ Verify(w) \/ Launch(w) PROVE Attempts'
  BY <1>2 DEF Download, Verify, Launch, Fail
<1>3. ASSUME NEW w \in Workers, Record(w) \/ WriteMarker(w) PROVE Attempts'
  BY <1>3 DEF Record, WriteMarker, Succeed
<1>4. ASSUME NEW w \in Workers, Retry(w) PROVE Attempts'
  BY <1>4 DEF Retry
<1>5. ASSUME NEW w \in Workers, Installer(w) PROVE Attempts'
  BY <1>5 DEF Installer, InstallerBegins, InstallerGivesUp, InstallerStopsService, Die,
              InstallerSwaps, InstallerRollsBack, InstallerStartsService
<1>6. CASE ProcessEnds \/ ProcessStarts \/ Reporting
  BY <1>6 DEF ProcessEnds, ProcessStarts, Die, Reporting, ReadMarker, RemoveMarker
<1>7. CASE UNCHANGED vars
  BY <1>7 DEF vars
<1> QED
  BY <1>1, <1>2, <1>3, <1>4, <1>5, <1>6, <1>7 DEF Next, Step

LEMMA CallRankRange == IInv /\ Attempts => CallIsBounded
<1> SUFFICES ASSUME IInv, Attempts, NEW w \in Workers
             PROVE  /\ CallRank(w) \in 0 .. 4 * RetryAttempts + 1
                    /\ CallRank(w) = 0 <=> pc[w] = "idle"
  BY DEF CallIsBounded
<1>1. pc[w] \in WorkerPcs /\ RetryAttempts \in Nat \ {0} /\ attempt[w] \in 0 .. RetryAttempts
  BY UpdateAssumption DEF IInv, TypeOK
<1>2. pc[w] = "idle" => CallRank(w) = 0
  BY DEF CallRank
<1>3. pc[w] # "idle" => CallRank(w) \in 1 .. 4 * RetryAttempts + 1
  <2>1. CASE pc[w] \in {"record", "write"}
    <3>1. CallRank(w) \in 1 .. 2
      BY <2>1 DEF CallRank
    <3> QED
      BY <1>1, <3>1
  <2>2. CASE pc[w] \in {"download", "verify", "launch", "sleep"}
    <3> DEFINE left == 4 * (RetryAttempts - attempt[w])
    <3>1. left \in 0 .. 4 * RetryAttempts - 4
      BY <1>1, <2>2 DEF Attempts
    <3>2. CallRank(w) \in {left + 2, left + 3, left + 4, left + 5}
      BY <2>2 DEF CallRank
    <3> HIDE DEF left
    <3> QED
      BY <1>1, <3>1, <3>2
  <2> QED
    BY <1>1, <2>1, <2>2 DEF WorkerPcs
<1> QED
  BY <1>1, <1>2, <1>3

\* Each step of a goroutine is one of the steps it has left.
LEMMA CallRankFalls ==
  ASSUME IInv, Attempts, NEW w \in Workers, Step(w)
  PROVE  CallRank(w)' < CallRank(w)
<1> USE DEF CallRank
<1>1. /\ RetryAttempts \in Nat /\ attempt[w] \in 0 .. RetryAttempts
      /\ pc \in [Workers -> WorkerPcs] /\ attempt \in [Workers -> 0 .. RetryAttempts]
  BY UpdateAssumption DEF IInv, TypeOK
<1>2. CASE Download(w)
  BY <1>1, <1>2 DEF Download, Fail, Attempts
<1>3. CASE Verify(w)
  BY <1>1, <1>3 DEF Verify, Fail, Attempts
<1>4. CASE Launch(w)
  BY <1>1, <1>4 DEF Launch, Fail, Attempts
<1>5. CASE Record(w) \/ WriteMarker(w)
  BY <1>1, <1>5 DEF Record, WriteMarker, Succeed
<1>6. CASE Retry(w)
  BY <1>1, <1>6 DEF Retry, Attempts
<1> QED
  BY <1>2, <1>3, <1>4, <1>5, <1>6, Zenon DEF Step

\* Nothing but a call of its own sets a goroutine back.
LEMMA CallRankRises ==
  ASSUME IInv, Attempts, [Next]_vars, NEW w \in Workers, CallRank(w)' > CallRank(w)
  PROVE  UpdateRPC(w)
<1>1. CallRank(w) \in Nat /\ ~(CallRank(w)' = CallRank(w)) /\ ~(CallRank(w)' < CallRank(w))
  <2>1. CallIsBounded /\ CallIsBounded'
    <3>1. IInv' /\ Attempts'
      BY StepIInv, StepAttempts
    <3>2. IInv' /\ Attempts' => CallIsBounded'
      BY CallRankRange, PTL
    <3> QED
      BY <3>1, <3>2, CallRankRange
  <2>2. CallRank(w) \in Nat /\ CallRank(w)' \in Nat
    BY <2>1, UpdateAssumption DEF CallIsBounded
  <2> QED
    BY <2>2
<1>2. UNCHANGED <<pc[w], attempt[w]>> => CallRank(w)' = CallRank(w)
  BY DEF CallRank
<1>3. (pc[w])' = "idle" => CallRank(w)' = 0
  BY DEF CallRank
<1>4. ~ UNCHANGED <<pc[w], attempt[w]>> /\ ~((pc[w])' = "idle")
  BY <1>1, <1>2, <1>3
<1>5. pc \in [Workers -> WorkerPcs] /\ attempt \in [Workers -> 0 .. RetryAttempts]
  BY DEF IInv, TypeOK
<1> USE DEF goVars
<1>6. ASSUME NEW v \in Workers, UpdateRPC(v) PROVE v = w
  BY <1>4, <1>5, <1>6 DEF UpdateRPC
<1>7. ASSUME NEW v \in Workers, Step(v) PROVE FALSE
  <2>1. v = w
    BY <1>4, <1>5, <1>7 DEF Step, Download, Verify, Launch, Record, WriteMarker, Retry,
                            Fail, Succeed
  <2> QED
    BY <1>1, <1>7, <2>1, CallRankFalls
<1>8. ASSUME NEW v \in Workers, Installer(v) PROVE FALSE
  BY <1>4, <1>8 DEF Installer, InstallerBegins, InstallerGivesUp, InstallerStopsService, Die,
                    InstallerSwaps, InstallerRollsBack, InstallerStartsService
<1>9. CASE ProcessEnds \/ ProcessStarts \/ Reporting
  BY <1>4, <1>9 DEF ProcessEnds, ProcessStarts, Die, Reporting, ReadMarker, RemoveMarker
<1>10. CASE UNCHANGED vars
  BY <1>4, <1>10 DEF vars
<1> QED
  BY <1>6, <1>7, <1>8, <1>9, <1>10 DEF Next

(* A call of the dashboard has an end: over all its retries, and whatever fails *)
(* in which attempt, its goroutine takes at most 4 * RetryAttempts + 1 steps.   *)
(* Besides this, CallEnds needs only that the goroutine is scheduled.           *)
THEOREM CallCountdown == Spec => []CallIsBounded /\ CallCountsDown
<1>1. Init => Attempts
  BY DEF Init, Attempts
<1>2. ASSUME IInv, Attempts, [Next]_vars
      PROVE  \A w \in Workers : /\ Step(w) => CallRank(w)' < CallRank(w)
                                /\ CallRank(w)' > CallRank(w) => UpdateRPC(w)
  BY <1>2, CallRankFalls, CallRankRises
<1>3. Spec => []Attempts
  BY <1>1, StepAttempts, Invariance, PTL DEF Spec
<1>4. Spec => CallCountsDown
  BY <1>2, <1>3, Invariance, PTL DEF Spec, CallCountsDown
<1> QED
  BY <1>3, <1>4, CallRankRange, Invariance, PTL

=============================================================================
