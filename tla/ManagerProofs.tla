--------------------------- MODULE ManagerProofs ---------------------------
(***************************************************************************)
(* Theorems about Manager, for every number of Agents, dashboard calls and  *)
(* endpoints, and every base, cap and floor of the backoff.                 *)
(***************************************************************************)
EXTENDS Manager, NatRecursion, SequenceTheorems, TLAPS

-----------------------------------------------------------------------------
(* The backoff *)

(* The step stays between Base and Cap, so that the draw of rand.Int63n, which *)
(* panics on a bound that is not positive, always has one to make.             *)
LEMMA StepInRange ==
  ASSUME NEW c \in Base .. Cap, NEW cl \in Classes
  PROVE  /\ Advance(c) \in Base .. Cap
         /\ Ceiling(c, cl) \in 1 .. Cap
BY BackoffAssumption DEF Advance, Ceiling, Capped, Classes

(* Every wait is at least a second and, unless it is that second, shorter than *)
(* the cap; and there always is one.                                           *)
LEMMA WaitInRange ==
  ASSUME NEW c \in Base .. Cap, NEW cl \in Classes
  PROVE  /\ Waits(c, cl) # {}
         /\ \A w \in Waits(c, cl) : w \in Nat /\ w >= Second /\ (w > Second => w < Cap)
<1>1. Ceiling(c, cl) \in 1 .. Cap
  BY StepInRange
<1>2. 0 \in 0 .. Ceiling(c, cl) - 1
  BY <1>1, BackoffAssumption
<1>3. Waits(c, cl) # {}
  BY <1>2 DEF Waits
<1>4. ASSUME NEW r \in 0 .. Ceiling(c, cl) - 1
      PROVE  LET w == IF r < Second THEN Second ELSE r
             IN  w \in Nat /\ w >= Second /\ (w > Second => w < Cap)
  BY <1>1, BackoffAssumption
<1> QED
  BY <1>3, <1>4 DEF Waits

\* Only the classes of errClass are ever passed to Next.
LEMMA ClassOfError == \A e \in Errors : classify(e) \in Classes
BY DEF classify, Classes

-----------------------------------------------------------------------------
(* Type correctness *)

\* One more endpoint in the status, all of them of one Agent.
LEMMA AppendSame ==
  ASSUME NEW S, NEW a \in S, NEW n \in Nat
  PROVE  /\ [k \in 1 .. n |-> a] \in Seq(S)
         /\ Append([k \in 1 .. n |-> a], a) = [k \in 1 .. n + 1 |-> a]
<1>1. [k \in 1 .. n |-> a] \in Seq(S)
  OBVIOUS
<1> QED
  BY <1>1

\* The status writes of run keep its type.
LEMMA WriteEndpoints ==
  ASSUME NEW s \in Status, NEW q \in Seq(Agents)
  PROVE  [s EXCEPT !.endpoints = q] \in Status
BY DEF Status

LEMMA WriteOutcome ==
  ASSUME NEW s \in Status, NEW st \in States, NEW e \in Errors
  PROVE  [s EXCEPT !.state = st, !.lastError = e] \in Status
BY DEF Status

LEMMA InitTypes == Init => TypeOK
<1> SUFFICES ASSUME Init PROVE TypeOK
  OBVIOUS
<1>1. Base \in Base .. Cap /\ 0 \in 0 .. NumEndpoints + 1 /\ 0 \in 0 .. MaxFailures
  BY BackoffAssumption, ManagerAssumption
<1>2. <<>> \in Seq(Agents)
  OBVIOUS
<1> QED
  BY <1>1, <1>2 DEF Init, TypeOK, RunPcs, Errors, Status, States, SessionStates, RPCs, NoRPC

(* A step keeps the types, given what run knows of the Agent it holds: without *)
(* that, a session or an endpoint could be recorded for no Agent at all.       *)
LEMMA StepTypes == TypeOK /\ AgentByPc /\ [Next]_vars => TypeOK'
<1> SUFFICES ASSUME TypeOK, AgentByPc, [Next]_vars PROVE TypeOK'
  OBVIOUS
<1> USE BackoffAssumption, ManagerAssumption
     DEF TypeOK, RunPcs, Errors, States, SessionStates, 
         chanVars, ownerVars, sdkVars, auxVars, runVars
<1>1. CASE LoopTop
  BY <1>1 DEF LoopTop, StopRun, Status
<1>2. CASE Announce
  BY <1>2 DEF Announce, Status
<1>3. CASE BuildAgent
  BY <1>3 DEF BuildAgent, CallErrors
<1>4. CASE ConnectAgent
  <2>1. status' \in Status
    <3>1. <<>> \in Seq(Agents)
      OBVIOUS
    <3>2. [status EXCEPT !.endpoints = <<>>] \in Status
      BY <3>1, WriteEndpoints
    <3> QED
      BY <1>4, <3>2 DEF ConnectAgent
  <2>2. session' \in [Agents -> SessionStates]
    BY <1>4 DEF ConnectAgent
  <2>3. idx' \in 0 .. NumEndpoints + 1 /\ err' \in Errors
    BY <1>4 DEF ConnectAgent, CallErrors
  <2> QED
    BY <1>4, <2>1, <2>2, <2>3 DEF ConnectAgent
<1>5. CASE ForwardEndpoint
  <2>1. CASE status' = [status EXCEPT !.endpoints = Append(@, agent)]
    <3>1. Append(status.endpoints, agent) \in Seq(Agents)
      BY <1>5 DEF ForwardEndpoint, AgentByPc, HoldingPcs, Status
    <3>2. status' \in Status
      BY <2>1, <3>1, WriteEndpoints
    <3> QED
      BY <1>5, <3>2 DEF ForwardEndpoint, CallErrors
  <2>2. CASE UNCHANGED status
    BY <1>5, <2>2 DEF ForwardEndpoint, CallErrors
  <2> QED
    BY <1>5, <2>1, <2>2 DEF ForwardEndpoint
<1>6. CASE Publish
  <2>1. status' \in Status
    <3>1. "connected" \in States /\ "nil" \in Errors
      OBVIOUS
    <3>2. [status EXCEPT !.state = "connected", !.lastError = "nil"] \in Status
      BY <3>1, WriteOutcome
    <3> QED
      BY <1>6, <3>2 DEF Publish
  <2> QED
    BY <1>6, <2>1 DEF Publish
<1>7. CASE SignalFirst
  BY <1>7 DEF SignalFirst, CloseOnce
<1>8. CASE ServeCanceled \/ ServeDisconnected \/ ServeRestart
  BY <1>8 DEF ServeCanceled, ServeDisconnected, ServeRestart
<1>9. CASE Teardown
  <2>1. session' \in [Agents -> SessionStates]
    BY <1>9 DEF Teardown
  <2> QED
    BY <1>9, <2>1 DEF Teardown
<1>10. CASE Returned
  <2>1. CASE canceled
    BY <1>10, <2>1 DEF Returned, StopRun, Status
  <2>2. CASE ~canceled
    <3>1. classify(err) \in Classes
      BY ClassOfError
    <3>2. Advance(backoff) \in Base .. Cap
      BY <3>1, StepInRange
    <3>3. wait' \in Nat
      BY <1>10, <2>2, <3>1, WaitInRange DEF Returned
    <3>4. status' \in Status
      <4>1. "reconnecting" \in States /\ err \in Errors
        OBVIOUS
      <4>2. [status EXCEPT !.state = "reconnecting", !.lastError = err] \in Status
        BY <4>1, WriteOutcome
      <4> QED
        BY <1>10, <2>2, <4>2 DEF Returned
    <3> QED
      BY <1>10, <2>2, <3>2, <3>3, <3>4 DEF Returned
  <2> QED
    BY <2>1, <2>2
<1>11. CASE BackoffWake \/ CloseDone
  BY <1>11 DEF BackoffWake, StopRun, CloseDone, Status
<1>12. ASSUME NEW a \in Agents, SessionDrops(a) \/ DeliverEvent(a)
       PROVE  TypeOK'
  BY <1>12 DEF SessionDrops, DeliverEvent
<1>13. ASSUME NEW i \in RPCIds, RPCArrives(i) PROVE TypeOK'
  BY <1>13 DEF RPCArrives, RPCs, Methods
<1>14. ASSUME NEW i \in RPCIds, HandleRPC(i) PROVE TypeOK'
  BY <1>14 DEF HandleRPC, RPCs, NoRPC, CloseOnce
<1>15. CASE Owner
  <2>1. CASE Start
    BY <2>1 DEF Start
  <2>2. CASE StartConnected \/ StartBudget \/ StartCtxDone
    BY <2>2 DEF StartConnected, StartBudget, StartCtxDone, StartReturns
  <2>3. CASE StopCall
    <3>1. stopBetween' \in BOOLEAN
      BY <2>3, Zenon DEF StopCall
    <3> QED
      BY <2>3, <3>1 DEF StopCall
  <2>4. CASE StopDone \/ StopDeadline
    BY <2>4 DEF StopDone, StopDeadline, StopReturns
  <2> QED
    BY <1>15, <2>1, <2>2, <2>3, <2>4 DEF Owner
<1>16. CASE UNCHANGED vars
  BY <1>16 DEF vars
<1> QED
  BY <1>1, <1>2, <1>3, <1>4, <1>5, <1>6, <1>7, <1>8, <1>9, <1>10, <1>11, <1>12,
     <1>13, <1>14, <1>15, <1>16 DEF Next, Call, Local, SDK
-----------------------------------------------------------------------------
(* The Agent run holds *)

LEMMA InitAgent == Init => AgentByPc /\ NoLeakedSession
BY DEF Init, AgentByPc, NoLeakedSession, HoldingPcs

(* The heart of the safety argument: sessions begin and end only at Connect and *)
(* Disconnect, which run calls on the one Agent it holds, and the SDK only      *)
(* ever changes a session that is there.                                        *)
LEMMA StepAgent ==
  TypeOK /\ CancelByPc /\ AgentByPc /\ NoLeakedSession /\ [Next]_vars
    => (AgentByPc /\ NoLeakedSession)'
<1> SUFFICES ASSUME TypeOK, CancelByPc, AgentByPc, NoLeakedSession, [Next]_vars
             PROVE  (AgentByPc /\ NoLeakedSession)'
  OBVIOUS
<1> USE ManagerAssumption
     DEF AgentByPc, NoLeakedSession, HoldingPcs,
         chanVars, ownerVars, sdkVars, auxVars, runVars
<1>0. session \in [Agents -> SessionStates] /\ agent \in Agents \cup {NoAgent}
  BY DEF TypeOK
<1>1. CASE LoopTop \/ Announce
  BY <1>1 DEF LoopTop, Announce, StopRun
<1>2. CASE BuildAgent
  BY <1>2 DEF BuildAgent, Fresh
<1>3. CASE ConnectAgent
  BY <1>0, <1>3 DEF ConnectAgent
<1>4. CASE ForwardEndpoint \/ Publish \/ SignalFirst
  BY <1>4 DEF ForwardEndpoint, Publish, SignalFirst
<1>5. CASE ServeCanceled \/ ServeDisconnected \/ ServeRestart
  BY <1>5 DEF ServeCanceled, ServeDisconnected, ServeRestart
<1>6. CASE Teardown
  BY <1>0, <1>6 DEF Teardown
<1>7. CASE Returned \/ BackoffWake \/ CloseDone
  BY <1>7 DEF Returned, BackoffWake, StopRun, CloseDone
<1>8. ASSUME NEW a \in Agents, SessionDrops(a) \/ DeliverEvent(a)
      PROVE  (AgentByPc /\ NoLeakedSession)'
  BY <1>0, <1>8 DEF SessionDrops, DeliverEvent
<1>9. ASSUME NEW i \in RPCIds, RPCArrives(i) \/ HandleRPC(i)
      PROVE  (AgentByPc /\ NoLeakedSession)'
  BY <1>9 DEF RPCArrives, HandleRPC
<1>10. CASE Owner
  <2>1. CASE Start
    BY <2>1 DEF Start, CancelByPc
  <2>2. CASE StopCall
    BY <2>2 DEF StopCall
  <2>3. CASE StartConnected \/ StartBudget \/ StartCtxDone \/ StopDone \/ StopDeadline
    BY <2>3 DEF StartConnected, StartBudget, StartCtxDone, StartReturns,
                StopDone, StopDeadline, StopReturns
  <2> QED
    BY <1>10, <2>1, <2>2, <2>3 DEF Owner
<1>11. CASE UNCHANGED vars
  BY <1>11 DEF vars
<1> QED
  BY <1>1, <1>2, <1>3, <1>4, <1>5, <1>6, <1>7, <1>8, <1>9, <1>10, <1>11
     DEF Next, Call, Local, SDK

-----------------------------------------------------------------------------
(* The cancellation *)

\* run ends for a cancellation only, and a Stop between two attempts stays there.
LEMMA StepCancel == TypeOK /\ CancelByPc /\ [Next]_vars => CancelByPc'
<1> SUFFICES ASSUME TypeOK, CancelByPc, [Next]_vars PROVE CancelByPc'
  OBVIOUS
<1> USE DEF CancelByPc, BetweenPcs, chanVars, ownerVars, sdkVars, auxVars, runVars
<1>0. /\ canceled \in BOOLEAN /\ stopBetween \in BOOLEAN
      /\ startPc \in {"idle", "waiting", "ok", "ctxErr"}
      /\ disconnected \in {"empty", "nil", "plain", "listed"}
  BY DEF TypeOK
<1>1. CASE LoopTop \/ Announce
  BY <1>1 DEF LoopTop, Announce, StopRun
<1>2. CASE BuildAgent
  BY <1>2 DEF BuildAgent, CallErrors
<1>3. CASE ConnectAgent
  BY <1>3 DEF ConnectAgent, CallErrors
<1>4. CASE ForwardEndpoint
  BY <1>4 DEF ForwardEndpoint, CallErrors
<1>5. CASE Publish \/ SignalFirst
  BY <1>5 DEF Publish, SignalFirst
<1>6. CASE ServeCanceled \/ ServeDisconnected \/ ServeRestart
  BY <1>0, <1>6 DEF ServeCanceled, ServeDisconnected, ServeRestart
<1>7. CASE Teardown
  BY <1>7 DEF Teardown
<1>8. CASE Returned
  BY <1>8 DEF Returned, StopRun
<1>9. CASE BackoffWake \/ CloseDone
  BY <1>9 DEF BackoffWake, StopRun, CloseDone
<1>10. ASSUME NEW a \in Agents, SessionDrops(a) \/ DeliverEvent(a)
      PROVE  CancelByPc'
  BY <1>10 DEF SessionDrops, DeliverEvent
<1>11. ASSUME NEW i \in RPCIds, RPCArrives(i) \/ HandleRPC(i)
      PROVE  CancelByPc'
  BY <1>11 DEF RPCArrives, HandleRPC
<1>12. CASE Start
  BY <1>12 DEF Start
<1>13. CASE StartConnected \/ StartBudget \/ StartCtxDone
  BY <1>13 DEF StartConnected, StartBudget, StartCtxDone, StartReturns
<1>14. CASE StopCall
  BY <1>0, <1>14 DEF StopCall
<1>15. CASE StopDone \/ StopDeadline
  BY <1>15 DEF StopDone, StopDeadline, StopReturns
<1>16. CASE UNCHANGED vars
  BY <1>16 DEF vars
<1> QED
  BY <1>1, <1>2, <1>3, <1>4, <1>5, <1>6, <1>7, <1>8, <1>9, <1>10, <1>11, <1>12,
     <1>13, <1>14, <1>15, <1>16 DEF Next, Call, Local, SDK, Owner

-----------------------------------------------------------------------------
(* The status *)

LEMMA InitStatus == Init => StatusByPc
BY DEF Init, StatusByPc, HoldingPcs

\* The loop of connectAndServe adds one endpoint of the present Agent at a time.
LEMMA AppendForwarded ==
  ASSUME TypeOK, runPc = "forward", StatusByPc, AgentByPc
  PROVE  Append(status.endpoints, agent) = Forwarded(idx)
<1>1. idx - 1 \in Nat /\ idx - 1 + 1 = idx
  BY DEF TypeOK, StatusByPc
<1>2. status.endpoints = [k \in 1 .. idx - 1 |-> agent]
  BY DEF StatusByPc, Forwarded
<1>3. agent \in Agents
  BY DEF AgentByPc, HoldingPcs
<1>4. Append([k \in 1 .. idx - 1 |-> agent], agent) = [k \in 1 .. idx - 1 + 1 |-> agent]
  BY <1>1, <1>3, AppendSame
<1> QED
  BY <1>1, <1>2, <1>4 DEF Forwarded

LEMMA StepStatus ==
  TypeOK /\ CancelByPc /\ AgentByPc /\ StatusByPc /\ [Next]_vars => StatusByPc'
<1> SUFFICES ASSUME TypeOK, CancelByPc, AgentByPc, StatusByPc, [Next]_vars
             PROVE  StatusByPc'
  OBVIOUS
<1> USE ManagerAssumption
    DEF StatusByPc, HoldingPcs, Forwarded, chanVars, ownerVars, sdkVars, auxVars, runVars
<1>0. status \in Status /\ idx \in 0 .. NumEndpoints + 1
  BY DEF TypeOK
<1>1. CASE LoopTop \/ Announce
  BY <1>0, <1>1 DEF LoopTop, Announce, StopRun, Status
<1>2. CASE BuildAgent
  BY <1>2 DEF BuildAgent
<1>3. CASE ConnectAgent
  BY <1>0, <1>3 DEF ConnectAgent, Status
<1>4. CASE ForwardEndpoint
  <2>1. CASE status' = [status EXCEPT !.endpoints = Append(@, agent)] /\ idx' = idx + 1
    <3>1. status'.endpoints = [k \in 1 .. idx |-> agent] /\ status'.state = status.state
      BY <1>0, <1>4, <2>1, AppendForwarded DEF ForwardEndpoint, Status
    <3> QED
      BY <1>0, <1>4, <2>1, <3>1 DEF ForwardEndpoint
  <2>2. CASE UNCHANGED status /\ runPc' = "teardown"
    BY <1>4, <2>2 DEF ForwardEndpoint
  <2> QED
    BY <1>4, <2>1, <2>2 DEF ForwardEndpoint
<1>5. CASE Publish \/ SignalFirst
  <2>1. CASE Publish
    <3>1. idx - 1 = NumEndpoints
      BY <1>0, <2>1 DEF Publish
    <3>2. status'.endpoints = status.endpoints /\ status'.state = "connected"
      BY <1>0, <2>1 DEF Publish, Status
    <3> QED
      BY <2>1, <3>1, <3>2 DEF Publish
  <2>2. CASE SignalFirst
    BY <2>2 DEF SignalFirst
  <2> QED
    BY <1>5, <2>1, <2>2
<1>6. CASE ServeCanceled \/ ServeDisconnected \/ ServeRestart
  BY <1>6 DEF ServeCanceled, ServeDisconnected, ServeRestart
<1>7. CASE Teardown
  BY <1>7 DEF Teardown
<1>8. CASE Returned
  BY <1>0, <1>8 DEF Returned, StopRun, Status
<1>9. CASE BackoffWake \/ CloseDone
  BY <1>0, <1>9 DEF BackoffWake, StopRun, CloseDone, Status
<1>10. ASSUME NEW a \in Agents, SessionDrops(a) \/ DeliverEvent(a)
      PROVE  StatusByPc'
  BY <1>10 DEF SessionDrops, DeliverEvent
<1>11. ASSUME NEW i \in RPCIds, RPCArrives(i) \/ HandleRPC(i)
      PROVE  StatusByPc'
  BY <1>11 DEF RPCArrives, HandleRPC
<1>12. CASE Start
  BY <1>12 DEF Start, CancelByPc
<1>13. CASE StartConnected \/ StartBudget \/ StartCtxDone
  BY <1>13 DEF StartConnected, StartBudget, StartCtxDone, StartReturns
<1>14. CASE StopCall
  BY <1>14 DEF StopCall
<1>15. CASE StopDone \/ StopDeadline
  BY <1>15 DEF StopDone, StopDeadline, StopReturns
<1>16. CASE UNCHANGED vars
  BY <1>16 DEF vars
<1> QED
  BY <1>1, <1>2, <1>3, <1>4, <1>5, <1>6, <1>7, <1>8, <1>9, <1>10, <1>11, <1>12,
     <1>13, <1>14, <1>15, <1>16 DEF Next, Call, Local, SDK, Owner

-----------------------------------------------------------------------------
(* The inductive invariant, and what follows from it. *)

IInv == TypeOK /\ NoLeakedSession /\ RunInv

LEMMA InitIInv == Init => IInv
<1> SUFFICES ASSUME Init PROVE IInv
  OBVIOUS
<1>1. CancelByPc
  BY DEF Init, CancelByPc
<1> QED
  BY <1>1, InitTypes, InitAgent, InitStatus DEF IInv, RunInv

LEMMA StepIInv == IInv /\ [Next]_vars => IInv'
BY StepTypes, StepCancel, StepAgent, StepStatus DEF IInv, RunInv

LEMMA Inductive == Spec => []IInv
BY InitIInv, StepIInv, PTL DEF Spec

\* Every variable keeps its type; with it, the step of the backoff stays in Base .. Cap.
THEOREM TypeCorrect == Spec => []TypeOK
<1>1. IInv => TypeOK
  BY DEF IInv
<1> QED
  BY <1>1, Inductive, PTL

(* No interleaving of losses, dashboard calls, stops and failed attempts leaves *)
(* a session that run no longer holds and is still to disconnect.               *)
THEOREM NoLeak == Spec => []NoLeakedSession
<1>1. IInv => NoLeakedSession
  BY DEF IInv
<1> QED
  BY <1>1, Inductive, PTL

LEMMA NothingHeld ==
  ASSUME IInv, runPc \notin HoldingPcs
  PROVE  OpenSessions = {}
BY DEF IInv, NoLeakedSession, OpenSessions

\* While nothing has started, no goroutine of the Manager has a step to take.
LEMMA IdleManager ==
  ASSUME IInv, runPc = "idle", \A i \in RPCIds : rpc[i] = NoRPC
  PROVE  ~(Call \/ Local \/ SDK)
<1>1. ~Call
  BY DEF Call, BuildAgent, ConnectAgent, ForwardEndpoint
<1>2. ~Local
  BY DEF Local, LoopTop, Announce, Publish, SignalFirst, ServeCanceled, ServeDisconnected,
         ServeRestart, Teardown, Returned, BackoffWake, CloseDone
<1>3. \A a \in Agents : session[a] = "none"
  BY DEF IInv, NoLeakedSession, HoldingPcs
<1>4. ~SDK
  BY <1>3 DEF SDK, SessionDrops, DeliverEvent, RPCArrives, HandleRPC
<1> QED
  BY <1>1, <1>2, <1>4

\* What a reader of StateConnected may conclude, in every state of the invariant.
LEMMA ConnectedByInv ==
  ASSUME IInv
  PROVE  ConnectedMeansForwarding
<1> SUFFICES ASSUME status.state = "connected", runPc # "returned"
             PROVE  /\ agent # NoAgent
                    /\ session[agent] # "none"
                    /\ status.endpoints = Forwarded(NumEndpoints)
  BY DEF ConnectedMeansForwarding
<1>1. runPc \in HoldingPcs
  BY DEF IInv, RunInv, StatusByPc, TypeOK, RunPcs, HoldingPcs
<1>2. agent \in Agents /\ session[agent] # "none"
  BY <1>1 DEF IInv, RunInv, AgentByPc
<1>3. status.endpoints = Forwarded(NumEndpoints)
  BY <1>1 DEF IInv, RunInv, StatusByPc
<1> QED
  BY <1>2, <1>3, ManagerAssumption

\* What a Stop that has returned, or that came between two attempts, may conclude.
LEMMA StopByInv ==
  ASSUME IInv
  PROVE  StopMeansQuiescent /\ StopBetweenAttempts
<1>1. ASSUME stopPc = "ok"
      PROVE  runPc = "exited" /\ OpenSessions = {} /\ status.state = "stopped"
  <2>1. runPc = "exited"
    BY <1>1 DEF IInv, RunInv, CancelByPc
  <2> QED
    BY <2>1, NothingHeld DEF IInv, RunInv, StatusByPc, HoldingPcs
<1>2. StopBetweenAttempts
  BY NothingHeld DEF StopBetweenAttempts, IInv, RunInv, CancelByPc, BetweenPcs, HoldingPcs
<1> QED
  BY <1>1, <1>2 DEF StopMeansQuiescent

\* A reader of StateConnected sees the endpoints of the present session, all of them.
THEOREM Connected == Spec => []ConnectedMeansForwarding
<1>1. IInv => ConnectedMeansForwarding
  BY ConnectedByInv
<1> QED
  BY <1>1, Inductive, PTL

\* A Stop that returned nil has left nothing behind.
THEOREM StopQuiescent == Spec => []StopMeansQuiescent
<1>1. IInv => StopMeansQuiescent
  BY StopByInv
<1> QED
  BY <1>1, Inductive, PTL

\* A Stop between two attempts opens no session any more.
THEOREM StopBetween == Spec => []StopBetweenAttempts
<1>1. IInv => StopBetweenAttempts
  BY StopByInv
<1> QED
  BY <1>1, Inductive, PTL

-----------------------------------------------------------------------------
(* Properties with an induction or a step of their own *)

LEMMA InitClose == Init => NoDoubleClose
BY DEF Init, NoDoubleClose

LEMMA StepClose == TypeOK /\ NoDoubleClose /\ [Next]_vars => NoDoubleClose'
<1> SUFFICES ASSUME TypeOK, NoDoubleClose, [Next]_vars PROVE NoDoubleClose'
  OBVIOUS
<1>1. \A n \in Nat : n <= 1 => CloseOnce(n) <= 1
  BY DEF CloseOnce
<1> USE DEF NoDoubleClose, chanVars
<1>2. CASE SignalFirst
  BY <1>1, <1>2 DEF SignalFirst, TypeOK
<1>3. ASSUME NEW i \in RPCIds, HandleRPC(i) PROVE NoDoubleClose'
  BY <1>1, <1>3 DEF HandleRPC, TypeOK
<1>4. CASE UNCHANGED <<stopRequested, firstConnect>>
  BY <1>4
<1> QED
  BY <1>2, <1>3, <1>4
     DEF Next, Call, Local, SDK, Owner, BuildAgent, ConnectAgent, ForwardEndpoint,
         LoopTop, Announce, Publish, ServeCanceled, ServeDisconnected, ServeRestart,
         Teardown, Returned, BackoffWake, CloseDone, SessionDrops, DeliverEvent, RPCArrives,
         Start, StartConnected, StartBudget, StartCtxDone, StartReturns,
         StopCall, StopDone, StopDeadline, StopReturns, vars

\* close runs at most once on each channel, over any number of calls and reconnects.
THEOREM CloseAtMostOnce == Spec => []NoDoubleClose
BY InitClose, StepClose, TypeCorrect, PTL DEF Spec

LEMMA InitStopError == Init => StopIsNotAnError
BY DEF Init, StopIsNotAnError

LEMMA StepStopError == IInv /\ StopIsNotAnError /\ [Next]_vars => StopIsNotAnError'
<1> SUFFICES ASSUME IInv, StopIsNotAnError, [Next]_vars PROVE StopIsNotAnError'
  OBVIOUS
<1>1. status \in Status /\ (err = "ctx" => canceled)
  BY DEF IInv, TypeOK, RunInv, CancelByPc
<1>2. CASE status'.lastError = status.lastError
  BY <1>2 DEF StopIsNotAnError
<1>3. CASE Publish
  BY <1>1, <1>3 DEF Publish, StopIsNotAnError, Status
<1>4. CASE Returned
  BY <1>1, <1>4 DEF Returned, StopRun, StopIsNotAnError, Status
<1>5. CASE LoopTop \/ Announce \/ BackoffWake \/ ConnectAgent \/ ForwardEndpoint
  BY <1>1, <1>2, <1>5
     DEF LoopTop, Announce, BackoffWake, ConnectAgent, ForwardEndpoint, StopRun, Status
<1>6. CASE UNCHANGED status
  BY <1>2, <1>6
<1> QED
  BY <1>3, <1>4, <1>5, <1>6
     DEF Next, Call, Local, SDK, Owner, BuildAgent, SignalFirst, ServeCanceled,
         ServeDisconnected, ServeRestart, Teardown, CloseDone, SessionDrops,
         DeliverEvent, RPCArrives, HandleRPC, Start, StartConnected, StartBudget,
         StartCtxDone, StartReturns, StopCall, StopDone, StopDeadline, StopReturns, vars

(* A Stop is never recorded as the error of an attempt: the error of a canceled *)
(* call reaches only the check that ends the loop.                              *)
THEOREM StopNotAnError == Spec => []StopIsNotAnError
BY InitStopError, StepStopError, Inductive, PTL DEF Spec

(* Stopped is final: nothing the SDK, the dashboard or a second Stop does after *)
(* it changes the status, opens a session or starts run again.                  *)
THEOREM StoppedFinal == Spec => StoppedIsFinal
<1>1. ASSUME IInv, [Next]_vars, status.state = "stopped"
      PROVE  status' = status /\ session' = session /\ runPc' \in {"stopping", "exited"}
  <2>1. runPc \in {"stopping", "exited"}
    BY <1>1 DEF IInv, TypeOK, RunInv, StatusByPc, RunPcs
  <2>2. session \in [Agents -> SessionStates] /\ \A a \in Agents : session[a] = "none"
    BY <1>1, <2>1 DEF IInv, TypeOK, NoLeakedSession, HoldingPcs
  <2>3. startPc # "idle"
    BY <1>1, <2>1 DEF IInv, RunInv, CancelByPc
  <2> USE <2>1 DEF chanVars, ownerVars, sdkVars, auxVars, runVars
  <2>4. ~Call
    BY DEF Call, BuildAgent, ConnectAgent, ForwardEndpoint
  <2>5. CASE Local
    <3>1. CloseDone
      BY <2>5 DEF Local, LoopTop, Announce, Publish, SignalFirst, ServeCanceled,
                  ServeDisconnected, ServeRestart, Teardown, Returned, BackoffWake
    <3> QED
      BY <3>1 DEF CloseDone
  <2>6. ASSUME NEW a \in Agents, SessionDrops(a) \/ DeliverEvent(a) PROVE FALSE
    BY <2>2, <2>6 DEF SessionDrops, DeliverEvent
  <2>7. ASSUME NEW i \in RPCIds, RPCArrives(i) \/ HandleRPC(i)
        PROVE  UNCHANGED <<status, session, runPc>>
    BY <2>7 DEF RPCArrives, HandleRPC
  <2>8. CASE Owner
    BY <2>3, <2>8 DEF Owner, Start, StartConnected, StartBudget, StartCtxDone, StartReturns,
                      StopCall, StopDone, StopDeadline, StopReturns
  <2>9. CASE UNCHANGED vars
    BY <2>9 DEF vars
  <2> QED
    BY <1>1, <2>4, <2>5, <2>6, <2>7, <2>8, <2>9 DEF Next, SDK
<1> QED
  BY <1>1, Inductive, PTL DEF Spec, StoppedIsFinal

-----------------------------------------------------------------------------
(* The pace of the retries *)

\* Doubled is the function its equation describes: it starts at Base and doubles.
LEMMA DoubledEquation ==
  /\ Doubled \in [Nat -> Nat]
  /\ Doubled[0] = Base
  /\ \A n \in Nat : Doubled[n + 1] = 2 * Doubled[n]
<1> DEFINE Def(f) == f = [n \in Nat |-> IF n = 0 THEN Base ELSE 2 * f[n - 1]]
<1>1. \E f \in [Nat -> Nat] : Def(f)
  <2> DEFINE double == [n \in Nat |-> [x \in Nat |-> 2 * x]]
  <2>1. double \in Steps(Nat) /\ Base \in Nat
    BY BackoffAssumption DEF Steps
  <2>2. \A n \in Nat, x \in Nat : double[n][x] = 2 * x
    OBVIOUS
  <2> HIDE DEF double
  <2>3. Recursive(Nat, Base, double) # {}
    BY <2>1, PrimitiveRecursion
  <2>4. PICK f \in [Nat -> Nat] :
          f[0] = Base /\ \A n \in Nat \ {0} : f[n] = double[n][f[n - 1]]
    BY <2>3, Zenon DEF Recursive
  <2>5. ASSUME NEW n \in Nat \ {0} PROVE f[n] = 2 * f[n - 1]
    <3>1. n - 1 \in Nat /\ f[n - 1] \in Nat
      OBVIOUS
    <3> QED
      BY <2>2, <2>4, <3>1
  <2> QED
    BY <2>4, <2>5
<1>2. Def(Doubled)
  <2>1. Doubled = CHOOSE f : Def(f)
    BY DEF Doubled
  <2> HIDE DEF Def
  <2> QED
    BY <1>1, <2>1
<1> DEFINE S == {n \in Nat : Doubled[n] \in Nat}
<1>3. Nat \subseteq S
  <2>1. 0 \in S
    BY <1>2, BackoffAssumption
  <2>2. \A n \in Nat : n \in S => n + 1 \in S
    BY <1>2
  <2> HIDE DEF S
  <2> QED
    BY <2>1, <2>2, Induction
<1>4. \A n \in Nat : n + 1 \in Nat /\ n + 1 # 0 /\ (n + 1) - 1 = n
  OBVIOUS
<1>5. Doubled[0] = Base /\ \A n \in Nat : Doubled[n + 1] = 2 * Doubled[n]
  BY <1>2, <1>4
<1>6. Doubled \in [Nat -> Nat]
  BY <1>2, <1>3
<1> QED
  BY <1>5, <1>6

\* What was doubled more often is no smaller, and outgrows every number.
LEMMA DoubledGrows ==
  \A n \in Nat : Doubled[n] >= n /\ Doubled[n + 1] >= Doubled[n]
<1> DEFINE S == {n \in Nat : Doubled[n] >= n + 1}
<1>1. 0 \in S
  BY DoubledEquation, BackoffAssumption
<1>2. \A n \in Nat : n \in S => n + 1 \in S
  BY DoubledEquation
<1>3. Nat \subseteq S
  <2> HIDE DEF S
  <2> QED
    BY <1>1, <1>2, Induction
<1> QED
  BY <1>3, DoubledEquation

(* The history variable counts far enough for the pace to be stated: it does   *)
(* not saturate before the step has met the cap.                               *)
CountsToCap == MaxFailures > 0 /\ Doubled[MaxFailures - 1] >= Cap

\* For every Base and Cap there is a bound that counts far enough.
LEMMA CapIsMet == \E n \in Nat : n > 0 /\ Doubled[n - 1] >= Cap
<1>1. Cap + 1 \in Nat /\ Cap + 1 > 0 /\ (Cap + 1) - 1 = Cap /\ Doubled[Cap] >= Cap
  BY DoubledGrows, BackoffAssumption
<1> QED
  BY <1>1

\* A failed attempt takes the capped step of n failures to that of n + 1.
LEMMA AdvanceDoubles ==
  \A n \in Nat : Advance(Capped(Doubled[n])) = Capped(Doubled[n + 1])
BY DoubledEquation, BackoffAssumption DEF Advance, Capped

\* One failed attempt more keeps the pace, the saturated count included.
LEMMA FailurePaces ==
  ASSUME TypeOK, RetryPacing, CountsToCap, Returned, ~canceled
  PROVE  RetryPacing'
<1> USE BackoffAssumption, ManagerAssumption
<1>1. /\ failures \in 0 .. MaxFailures /\ backoff \in Base .. Cap
      /\ status \in Status /\ err \in Errors
  BY DEF TypeOK
<1>2. backoff = Capped(Doubled[failures])
  BY DEF RetryPacing
<1>3. Doubled \in [Nat -> Nat]
  BY DoubledEquation
<1>4. /\ failures' \in Nat /\ failures' > 0
      /\ backoff = Capped(Doubled[failures' - 1])
      /\ backoff' = Capped(Doubled[failures'])
  <2>1. CASE failures < MaxFailures
    <3>1. failures' = failures + 1 /\ failures' - 1 = failures
      BY <1>1, <2>1 DEF Returned
    <3>2. backoff' = Advance(backoff)
      BY DEF Returned
    <3> QED
      BY <1>1, <1>2, <3>1, <3>2, AdvanceDoubles
  <2>2. CASE failures = MaxFailures
    <3>1. failures' = MaxFailures /\ MaxFailures - 1 \in Nat /\ (MaxFailures - 1) + 1 = MaxFailures
      BY <1>1, <2>2 DEF Returned, CountsToCap
    <3>2. Doubled[MaxFailures - 1] >= Cap /\ Doubled[MaxFailures] >= Cap
      BY <1>3, <3>1, DoubledGrows DEF CountsToCap
    <3>3. Capped(Doubled[MaxFailures - 1]) = Cap /\ Capped(Doubled[MaxFailures]) = Cap
      BY <1>3, <3>1, <3>2 DEF Capped
    <3>4. backoff' = Cap
      BY <1>2, <2>2, <3>3 DEF Returned, Advance, Capped
    <3> QED
      BY <1>2, <2>2, <3>1, <3>3, <3>4 DEF CountsToCap
  <2> QED
    BY <1>1, <2>1, <2>2
<1>5. wait' \in Waits(backoff, classify(err)) /\ status'.lastError = err
  BY <1>1 DEF Returned, Status
<1>6. /\ wait' >= Second
      /\ wait' > Second => wait' < Ceiling(backoff, classify(err))
  <2>1. Ceiling(backoff, classify(err)) \in 1 .. Cap
    BY <1>1, StepInRange, ClassOfError
  <2> QED
    BY <1>5, <2>1 DEF Waits
<1>7. Ceiling(backoff, classify(err)) = IF err = "listed" THEN Capped(4 * backoff) ELSE backoff
  BY DEF Ceiling, classify
<1> QED
  BY <1>4, <1>5, <1>6, <1>7 DEF RetryPacing

LEMMA InitPace == Init => RetryPacing
BY DoubledEquation, BackoffAssumption DEF Init, RetryPacing, Capped

LEMMA StepPace ==
  ASSUME CountsToCap
  PROVE  TypeOK /\ RetryPacing /\ [Next]_vars => RetryPacing'
<1> SUFFICES ASSUME TypeOK, RetryPacing, [Next]_vars PROVE RetryPacing'
  OBVIOUS
<1>0. status \in Status
  BY DEF TypeOK
<1>1. CASE Returned /\ ~canceled
  BY <1>1, FailurePaces
<1>2. CASE Publish
  BY <1>2, DoubledEquation, BackoffAssumption DEF Publish, RetryPacing, Capped
<1>3. CASE UNCHANGED <<backoff, failures>> /\ runPc' # "backoff"
  BY <1>3 DEF RetryPacing
<1>4. CASE UNCHANGED <<backoff, failures, wait, status, runPc>>
  BY <1>4 DEF RetryPacing
<1>5. CASE Local
  BY <1>1, <1>2, <1>3, <1>5
     DEF Local, LoopTop, Announce, SignalFirst, ServeCanceled, ServeDisconnected, ServeRestart,
         Teardown, Returned, BackoffWake, CloseDone, StopRun, auxVars
<1>6. CASE Call
  BY <1>3, <1>4, <1>6 DEF Call, BuildAgent, ConnectAgent, ForwardEndpoint, auxVars
<1>7. CASE SDK \/ Owner
  BY <1>3, <1>4, <1>7
     DEF SDK, Owner, SessionDrops, DeliverEvent, RPCArrives, HandleRPC, Start, StartConnected,
         StartBudget, StartCtxDone, StartReturns, StopCall, StopDone, StopDeadline, StopReturns,
         runVars, auxVars
<1>8. CASE UNCHANGED vars
  BY <1>4, <1>8 DEF vars, runVars, auxVars
<1> QED
  BY <1>5, <1>6, <1>7, <1>8 DEF Next

(* The pace of the retries, for every Base, Cap and floor: after any sequence  *)
(* of failures and successes the step is Base doubled once per failure since   *)
(* the last connection, up to Cap, and a wait stays below the step it was      *)
(* drawn for.                                                                  *)
THEOREM Pacing == CountsToCap => (Spec => []RetryPacing)
<1> SUFFICES ASSUME CountsToCap PROVE Spec => []RetryPacing
  OBVIOUS
<1>1. TypeOK /\ RetryPacing /\ [Next]_vars => RetryPacing'
  BY StepPace
<1> QED
  BY <1>1, InitPace, TypeCorrect, PTL DEF Spec

-----------------------------------------------------------------------------
(* What Stop waits for *)

(* The most steps run can still take once it is canceled: the Forward of each   *)
(* endpoint that is left, and a few around them.                                *)
StopRank ==
  CASE runPc = "exited"                  -> 0
    [] runPc = "stopping"                -> 1
    [] runPc \in {"loop", "returned"}    -> 2
    [] runPc \in {"backoff", "teardown"} -> 3
    [] runPc = "serve"                   -> 4
    [] runPc = "signal"                  -> 5
    [] runPc = "forward"                 -> NumEndpoints + 7 - idx
    [] runPc = "connect"                 -> NumEndpoints + 7
    [] runPc = "build"                   -> NumEndpoints + 8
    [] OTHER                             -> NumEndpoints + 9

\* Once canceled, run is at most NumEndpoints + 9 steps from its end.
StopIsNear ==
  canceled => StopRank \in 0 .. NumEndpoints + 9 /\ (StopRank = 0 <=> runPc = "exited")

\* Each step run takes then brings it nearer, and no other goroutine puts it back.
StopCountsDown ==
  [][canceled => /\ Call \/ Local => StopRank' < StopRank
                 /\ SDK \/ Owner => StopRank' = StopRank]_vars

LEMMA StopRankRange == IInv => StopIsNear
<1> SUFFICES ASSUME IInv, canceled
             PROVE  StopRank \in 0 .. NumEndpoints + 9 /\ (StopRank = 0 <=> runPc = "exited")
  BY DEF StopIsNear
<1>1. runPc \in RunPcs \ {"idle"} /\ idx \in 0 .. NumEndpoints + 1 /\ NumEndpoints \in Nat
  BY ManagerAssumption DEF IInv, TypeOK, RunInv, CancelByPc
<1>2. runPc = "forward" => idx >= 1
  BY DEF IInv, RunInv, StatusByPc
<1>3. runPc = "exited" => StopRank = 0
  BY DEF StopRank
<1>4. runPc # "exited" => StopRank \in 1 .. NumEndpoints + 9
  <2>1. CASE runPc \in {"stopping", "loop", "returned", "backoff", "teardown", "serve", "signal"}
    <3>1. StopRank \in 1 .. 5
      BY <2>1 DEF StopRank
    <3> QED
      BY <1>1, <3>1
  <2>2. CASE runPc = "forward"
    BY <1>1, <1>2, <2>2 DEF StopRank
  <2>3. CASE runPc \in {"connect", "build", "announce"}
    <3>1. StopRank \in {NumEndpoints + 7, NumEndpoints + 8, NumEndpoints + 9}
      BY <2>3 DEF StopRank
    <3> QED
      BY <1>1, <3>1
  <2> QED
    BY <1>1, <2>1, <2>2, <2>3 DEF RunPcs
<1> QED
  BY <1>1, <1>3, <1>4

LEMMA StopRankFalls ==
  ASSUME IInv, canceled, Call \/ Local
  PROVE  StopRank' < StopRank
<1> USE DEF StopRank
<1>1. idx \in 0 .. NumEndpoints + 1 /\ NumEndpoints \in Nat
  BY ManagerAssumption DEF IInv, TypeOK
<1>2. runPc = "forward" => idx >= 1
  BY DEF IInv, RunInv, StatusByPc
<1>3. CASE BuildAgent
  BY <1>1, <1>3 DEF BuildAgent
<1>4. CASE ConnectAgent
  BY <1>1, <1>4 DEF ConnectAgent
<1>5. CASE ForwardEndpoint
  BY <1>1, <1>2, <1>5 DEF ForwardEndpoint
<1>6. CASE Announce \/ Publish \/ SignalFirst
  BY <1>1, <1>6 DEF Announce, Publish, SignalFirst
<1>7. CASE ServeCanceled \/ ServeDisconnected \/ ServeRestart \/ Teardown
  BY <1>7 DEF ServeCanceled, ServeDisconnected, ServeRestart, Teardown
<1>8. CASE LoopTop \/ Returned \/ BackoffWake \/ CloseDone
  BY <1>8 DEF LoopTop, Returned, BackoffWake, CloseDone, StopRun
<1> QED
  BY <1>3, <1>4, <1>5, <1>6, <1>7, <1>8 DEF Call, Local

LEMMA StopRankStays ==
  ASSUME IInv, canceled, SDK \/ Owner
  PROVE  StopRank' = StopRank
<1>1. UNCHANGED runVars => StopRank' = StopRank
  BY DEF StopRank, runVars
<1>2. startPc # "idle"
  BY DEF IInv, RunInv, CancelByPc
<1>3. CASE SDK
  BY <1>1, <1>3 DEF SDK, SessionDrops, DeliverEvent, RPCArrives, HandleRPC
<1>4. CASE Owner
  BY <1>1, <1>2, <1>4 DEF Owner, Start, StartConnected, StartBudget, StartCtxDone,
                          StartReturns, StopCall, StopDone, StopDeadline, StopReturns
<1> QED
  BY <1>3, <1>4

(* The way out after Stop has no loop: whatever the calls into the SDK answer,  *)
(* and whatever sessions drop, dashboard calls and further Stops come in        *)
(* between, run returns within a number of its own steps that the configuration *)
(* bounds.  Besides this, StopTerminates needs only that run is scheduled.      *)
THEOREM StopCountdown == Spec => []StopIsNear /\ StopCountsDown
<1>1. ASSUME IInv, [Next]_vars, canceled
      PROVE  \/ UNCHANGED vars
             \/ /\ Call \/ Local => StopRank' < StopRank
                /\ SDK \/ Owner => StopRank' = StopRank
  BY <1>1, StopRankFalls, StopRankStays
<1> QED
  BY <1>1, StopRankRange, Inductive, PTL DEF Spec, StopCountsDown

-----------------------------------------------------------------------------
(* What the loss of a session leaves behind *)

(* The report of a loss is never lost itself: while run holds a session whose   *)
(* loss the SDK has reported, the event is in the channel the select will read. *)
LossIsHeard ==
  runPc \in {"forward", "signal", "serve"} /\ session[agent] = "reported" =>
    disconnected # "empty"

LEMMA StepLoss == IInv /\ LossIsHeard /\ [Next]_vars => LossIsHeard'
<1> SUFFICES ASSUME IInv, LossIsHeard, [Next]_vars PROVE LossIsHeard'
  OBVIOUS
<1> USE DEF LossIsHeard, chanVars, ownerVars, sdkVars, auxVars, runVars
<1>1. session \in [Agents -> SessionStates]
      /\ (runPc \in {"connect"} \cup HoldingPcs => agent \in Agents)
  BY DEF IInv, TypeOK, RunInv, AgentByPc
<1>2. CASE BuildAgent
  BY <1>2 DEF BuildAgent
<1>3. CASE ConnectAgent
  BY <1>1, <1>3 DEF ConnectAgent
<1>4. CASE ForwardEndpoint
  BY <1>4 DEF ForwardEndpoint
<1>5. CASE LoopTop \/ Announce \/ Publish \/ SignalFirst
  BY <1>5 DEF LoopTop, Announce, Publish, SignalFirst, StopRun
<1>6. CASE ServeCanceled \/ ServeDisconnected \/ ServeRestart \/ Teardown
  BY <1>6 DEF ServeCanceled, ServeDisconnected, ServeRestart, Teardown
<1>7. CASE Returned \/ BackoffWake \/ CloseDone
  BY <1>7 DEF Returned, BackoffWake, CloseDone, StopRun
<1>8. ASSUME NEW a \in Agents, SessionDrops(a) \/ DeliverEvent(a)
      PROVE  LossIsHeard'
  <2>1. runPc \in {"forward", "signal", "serve"} => agent \in Agents
    BY <1>1 DEF HoldingPcs
  <2>2. CASE SessionDrops(a)
    BY <1>1, <2>1, <2>2 DEF SessionDrops
  <2>3. CASE DeliverEvent(a)
    BY <1>1, <2>1, <2>3 DEF DeliverEvent
  <2> QED
    BY <1>8, <2>2, <2>3
<1>9. ASSUME NEW i \in RPCIds, RPCArrives(i) \/ HandleRPC(i)
      PROVE  LossIsHeard'
  BY <1>9 DEF RPCArrives, HandleRPC
<1>10. CASE Owner
  BY <1>10 DEF Owner, Start, StartConnected, StartBudget, StartCtxDone, StartReturns,
               StopCall, StopDone, StopDeadline, StopReturns
<1>11. CASE UNCHANGED vars
  BY <1>11 DEF vars
<1> QED
  BY <1>2, <1>3, <1>4, <1>5, <1>6, <1>7, <1>8, <1>9, <1>10, <1>11
     DEF Next, Call, Local, SDK

(* A loss that comes while the endpoints are still being forwarded, or while a  *)
(* restart is pending, is not missed: the send that does not block finds room,  *)
(* or an event already there.                                                   *)
THEOREM LossHeard == Spec => []LossIsHeard
<1>1. Init => LossIsHeard
  BY DEF Init, LossIsHeard
<1> QED
  BY <1>1, StepLoss, Inductive, PTL DEF Spec

-----------------------------------------------------------------------------
(* What follows a session *)

(* An attempt that is over, or is ending: run has left its select, the session is  *)
(* lost, or the dashboard wants another one.                                       *)
Ending ==
  \/ runPc \in {"teardown", "returned", "backoff", "loop", "announce"}
  \/ runPc \in {"forward", "signal", "serve"} /\ session[agent] # "up"
  \/ runPc = "serve" /\ restart # NoAgent

(* The most steps that run and the SDK can still take until the next attempt: those *)
(* of run, and while it holds a session, its loss and the report of that.           *)
StepsToAttempt ==
  LET news == CASE session[agent] = "up" -> 2 [] session[agent] = "lost" -> 1 [] OTHER -> 0
  IN  CASE runPc = "announce" -> 1
        [] runPc = "loop"     -> 2
        [] runPc = "backoff"  -> 3
        [] runPc = "returned" -> 4
        [] runPc = "teardown" -> 5
        [] runPc = "serve"    -> 6 + news
        [] runPc = "signal"   -> 7 + news
        [] runPc = "forward"  -> 8 + news
        [] OTHER              -> 0

(* The next attempt is at most nine steps away, and the select does not wait for    *)
(* nothing: it has a case that is ready, or the SDK has a loss to report.           *)
AttemptIsNear ==
  Ending =>
    /\ StepsToAttempt \in 1 .. 9
    /\ runPc = "serve" => session[agent] = "lost" \/ disconnected # "empty" \/ restart # NoAgent

(* Unless Stop comes, what is ending ends in another attempt: no step of run, the   *)
(* SDK, the dashboard or the owner takes it back, and those of run bring it nearer.  *)
AnotherAttemptFollows ==
  [][Ending /\ ~canceled' =>
       /\ runPc' = "build" \/ Ending'
       /\ StepsToAttempt' <= StepsToAttempt
       /\ Call \/ Local => StepsToAttempt' < StepsToAttempt]_vars

LEMMA EndingIsNear == Ending => StepsToAttempt \in 1 .. 9
<1>1. CASE runPc \in {"teardown", "returned", "backoff", "loop", "announce", "serve", "signal"}
  BY <1>1 DEF StepsToAttempt
<1>2. CASE runPc = "forward" /\ session[agent] # "up"
  BY <1>2 DEF StepsToAttempt
<1> QED
  BY <1>1, <1>2 DEF Ending

LEMMA StepEnding ==
  ASSUME IInv, [Next]_vars, Ending, ~canceled'
  PROVE  /\ runPc' = "build" \/ Ending'
         /\ StepsToAttempt' <= StepsToAttempt
         /\ Call \/ Local => StepsToAttempt' < StepsToAttempt
<1>1. /\ session \in [Agents -> SessionStates]
      /\ runPc \in HoldingPcs => agent \in Agents
      /\ startPc = "idle" => runPc = "idle"
      /\ canceled \in BOOLEAN
  BY DEF IInv, TypeOK, RunInv, AgentByPc, CancelByPc
<1> USE DEF chanVars, ownerVars, sdkVars, auxVars, runVars
<1>2. ~canceled
  BY <1>1 DEF Next, Call, BuildAgent, ConnectAgent, ForwardEndpoint, Local, LoopTop, Announce,
              Publish, SignalFirst, ServeCanceled, ServeDisconnected, ServeRestart, Teardown,
              Returned, BackoffWake, CloseDone, SDK, SessionDrops, DeliverEvent, RPCArrives,
              HandleRPC, Owner, Start, StartConnected, StartBudget, StartCtxDone, StartReturns,
              StopCall, StopDone, StopDeadline, StopReturns, vars
<1>3. UNCHANGED <<runPc, agent, session, restart>> =>
        StepsToAttempt' = StepsToAttempt /\ Ending'
  BY DEF Ending, StepsToAttempt
<1>4. StepsToAttempt \in 1 .. 9
  BY EndingIsNear
<1>5. ~BuildAgent /\ ~ConnectAgent /\ ~ServeCanceled /\ ~CloseDone
  BY <1>2 DEF Ending, BuildAgent, ConnectAgent, ServeCanceled, CloseDone
<1>6. CASE ForwardEndpoint
  <2>1. runPc = "forward" /\ session[agent] # "up"
    BY <1>6 DEF Ending, ForwardEndpoint
  <2>2. runPc' = "teardown"
    BY <1>6, <2>1 DEF ForwardEndpoint
  <2> QED
    BY <2>1, <2>2 DEF Ending, StepsToAttempt
<1>7. CASE LoopTop \/ Announce \/ Returned \/ BackoffWake \/ Teardown
  BY <1>2, <1>7 DEF LoopTop, Announce, Returned, BackoffWake, Teardown, Ending, StepsToAttempt
<1>8. CASE Publish \/ SignalFirst \/ ServeDisconnected \/ ServeRestart
  BY <1>8 DEF Publish, SignalFirst, ServeDisconnected, ServeRestart, Ending, StepsToAttempt
<1>9. ASSUME NEW a \in Agents, SessionDrops(a) \/ DeliverEvent(a)
      PROVE  Ending' /\ StepsToAttempt' <= StepsToAttempt
  <2>1. runPc' = runPc /\ agent' = agent /\ restart' = restart
    BY <1>9 DEF SessionDrops, DeliverEvent
  <2>2. CASE agent = a
    <3>1. \/ session[agent] = "up" /\ session'[agent] = "lost"
          \/ session[agent] = "lost" /\ session'[agent] = "reported"
      BY <1>1, <1>9, <2>2 DEF SessionDrops, DeliverEvent
    <3> QED
      BY <2>1, <3>1 DEF Ending, StepsToAttempt
  <2>3. CASE agent # a
    <3>1. session'[agent] = session[agent] \/ runPc \notin HoldingPcs
      BY <1>1, <1>9, <2>3 DEF SessionDrops, DeliverEvent
    <3> QED
      BY <2>1, <3>1 DEF Ending, StepsToAttempt, HoldingPcs
  <2> QED
    BY <2>2, <2>3
<1>10. ASSUME NEW i \in RPCIds, RPCArrives(i) \/ HandleRPC(i)
       PROVE  Ending' /\ StepsToAttempt' = StepsToAttempt
  <2>1. UNCHANGED <<runPc, agent, session>> /\ (restart # NoAgent => restart' = restart)
    BY <1>10 DEF RPCArrives, HandleRPC
  <2> QED
    BY <2>1 DEF Ending, StepsToAttempt
<1>11. Owner => Ending' /\ StepsToAttempt' = StepsToAttempt
  <2>1. runPc # "idle"
    BY DEF Ending
  <2>2. Owner => UNCHANGED <<runPc, agent, session, restart>>
    BY <1>1, <2>1 DEF Owner, Start, StartConnected, StartBudget, StartCtxDone,
                      StartReturns, StopCall, StopDone, StopDeadline, StopReturns
  <2> QED
    BY <1>3, <2>2
<1>12. UNCHANGED vars => Ending' /\ StepsToAttempt' = StepsToAttempt
  BY <1>3 DEF vars
<1>13. CASE Call \/ Local
  BY <1>4, <1>5, <1>6, <1>7, <1>8, <1>13 DEF Call, Local
<1>14. CASE ~(Call \/ Local)
  BY <1>4, <1>9, <1>10, <1>11, <1>12, <1>14 DEF Next, SDK
<1> QED
  BY <1>13, <1>14

(* The loop never gives up: a lost session, a restart from the dashboard or an error *)
(* of any class is followed by another attempt, within nine steps that nothing takes *)
(* back.  Besides this, LostSessionReplaced, RestartHonoured and KeepsTrying need     *)
(* only that run is scheduled and that the SDK answers and reports.                  *)
THEOREM NeverGivesUp == Spec => []AttemptIsNear /\ AnotherAttemptFollows
<1>1. ASSUME IInv, [Next]_vars, Ending, ~canceled'
      PROVE  /\ runPc' = "build" \/ Ending'
             /\ StepsToAttempt' <= StepsToAttempt
             /\ Call \/ Local => StepsToAttempt' < StepsToAttempt
  BY <1>1, StepEnding
<1>2. IInv /\ LossIsHeard => AttemptIsNear
  <2> SUFFICES ASSUME IInv, LossIsHeard, runPc = "serve", session[agent] \notin {"up", "lost"}
               PROVE  disconnected # "empty"
    BY EndingIsNear DEF AttemptIsNear, Ending
  <2>1. session[agent] \in SessionStates /\ session[agent] # "none"
    BY DEF IInv, TypeOK, RunInv, AgentByPc, HoldingPcs
  <2> QED
    BY <2>1 DEF LossIsHeard, SessionStates
<1> QED
  BY <1>1, <1>2, Inductive, LossHeard, PTL DEF Spec, AnotherAttemptFollows

-----------------------------------------------------------------------------
(* Refinement *)

(* Every step of Manager is a step of Supervisor or changes nothing it sees:   *)
(* sessions are opened only while connecting and closed before the status that *)
(* says so, and Stopped comes only after a stop was asked for.                 *)
THEOREM Refinement == Spec => ImplementsSupervisor
<1>1. Init => Abstract!Init
  BY DEF Init, Abstract!Init, OpenSessions
<1>2. ASSUME IInv, IInv', [Next]_vars PROVE [Abstract!Next]_(Abstract!vars)
  <2> USE DEF chanVars, ownerVars, sdkVars, auxVars, runVars, Abstract!vars
  <2>0. /\ status \in Status /\ session \in [Agents -> SessionStates]
        /\ runPc \in RunPcs /\ canceled \in BOOLEAN
    BY <1>1, <1>2 DEF IInv, TypeOK
  <2>1. runPc \notin HoldingPcs => OpenSessions = {}
    BY <1>2, NothingHeld
  <2>2. UNCHANGED session => UNCHANGED OpenSessions
    BY DEF OpenSessions
  <2>3. CASE Publish
    <3>1. OpenSessions # {} /\ status.state = "connecting"
      BY <1>2, <2>3 DEF Publish, IInv, RunInv, AgentByPc, StatusByPc, HoldingPcs, OpenSessions
    <3>2. Abstract!Announce
      BY <2>0, <2>2, <2>3, <3>1 DEF Publish, Status, Abstract!Announce
    <3> QED
      BY <3>2 DEF Abstract!Next
  <2>4. CASE ConnectAgent
    <3>1. status.state = "connecting" /\ OpenSessions = {} /\ agent \in Agents
      BY <1>2, <2>1, <2>4
         DEF ConnectAgent, IInv, RunInv, AgentByPc, StatusByPc, HoldingPcs
    <3>2. CASE session' = [session EXCEPT ![agent] = "up"] /\ status' = [status EXCEPT !.endpoints = <<>>]
      <4>1. OpenSessions' = {agent}
        BY <2>0, <3>1, <3>2 DEF OpenSessions
      <4>2. status'.state = status.state
        BY <2>0, <3>2 DEF Status
      <4>3. Abstract!Open
        BY <2>4, <3>1, <4>1, <4>2 DEF ConnectAgent, Abstract!Open
      <4> QED
        BY <4>3 DEF Abstract!Next
    <3>3. CASE UNCHANGED <<session, status>>
      BY <2>2, <2>4, <3>3 DEF ConnectAgent
    <3> QED
      BY <2>4, <3>2, <3>3 DEF ConnectAgent
  <2>5. CASE ForwardEndpoint
    BY <2>0, <2>2, <2>5 DEF ForwardEndpoint, Status
  <2>6. CASE Teardown
    <3>1. status.state \in {"connecting", "connected"} /\ OpenSessions # {}
      BY <1>2, <2>6
         DEF Teardown, IInv, RunInv, AgentByPc, StatusByPc, HoldingPcs, OpenSessions
    <3>2. OpenSessions' = {}
      BY <1>2, <2>6 DEF Teardown, IInv, NoLeakedSession, HoldingPcs, OpenSessions
    <3>3. Abstract!Close
      BY <2>6, <3>1, <3>2 DEF Teardown, Abstract!Close
    <3> QED
      BY <3>3 DEF Abstract!Next
  <2>7. CASE StopRun /\ canceled /\ runPc \notin HoldingPcs
             /\ UNCHANGED <<chanVars, ownerVars, sdkVars>>
    <3>1. Abstract!Stop
      BY <2>0, <2>1, <2>2, <2>7 DEF StopRun, Status, Abstract!Stop
    <3> QED
      BY <3>1 DEF Abstract!Next
  <2>8. CASE LoopTop
    BY <2>2, <2>7, <2>8 DEF LoopTop, HoldingPcs
  <2>9. CASE Announce
    <3>1. status.state \in {"connecting", "reconnecting"}
      BY <1>2, <2>9 DEF Announce, IInv, RunInv, StatusByPc
    <3>2. status'.state = "connecting"
      BY <2>0, <2>9 DEF Announce, Status
    <3> QED
      BY <2>2, <2>9, <3>1, <3>2 DEF Announce, Abstract!Retry, Abstract!Next
  <2>10. CASE Returned
    <3>1. CASE canceled
      BY <2>7, <2>10, <3>1 DEF Returned, HoldingPcs
    <3>2. CASE ~canceled
      <4>1. status.state \in {"connecting", "connected"} /\ OpenSessions = {}
        BY <1>2, <2>1, <2>10 DEF Returned, IInv, RunInv, StatusByPc, HoldingPcs
      <4>2. status'.state = "reconnecting"
        BY <2>0, <2>10, <3>2 DEF Returned, Status
      <4>3. Abstract!GiveWay
        BY <2>2, <2>10, <4>1, <4>2 DEF Returned, Abstract!GiveWay
      <4> QED
        BY <4>3 DEF Abstract!Next
    <3> QED
      BY <3>1, <3>2
  <2>11. CASE BackoffWake
    BY <2>2, <2>7, <2>11 DEF BackoffWake, HoldingPcs
  <2>12. CASE BuildAgent \/ SignalFirst \/ ServeCanceled \/ ServeDisconnected \/ ServeRestart \/ CloseDone
    BY <2>2, <2>12 DEF BuildAgent, SignalFirst, ServeCanceled, ServeDisconnected,
                       ServeRestart, CloseDone
  <2>13. ASSUME NEW a \in Agents, SessionDrops(a) \/ DeliverEvent(a)
         PROVE  [Abstract!Next]_(Abstract!vars)
    <3>1. OpenSessions' = OpenSessions
      BY <2>0, <2>13 DEF SessionDrops, DeliverEvent, OpenSessions
    <3> QED
      BY <2>13, <3>1 DEF SessionDrops, DeliverEvent
  <2>14. ASSUME NEW i \in RPCIds, RPCArrives(i) \/ HandleRPC(i)
         PROVE  [Abstract!Next]_(Abstract!vars)
    BY <2>2, <2>14 DEF RPCArrives, HandleRPC
  <2>15. CASE StopCall
    <3>1. Abstract!AskStop
      BY <2>2, <2>15 DEF StopCall, Abstract!AskStop
    <3> QED
      BY <3>1 DEF Abstract!Next
  <2>16. CASE Start \/ StartConnected \/ StartBudget \/ StartCtxDone \/ StopDone \/ StopDeadline
    BY <2>2, <2>16 DEF Start, StartConnected, StartBudget, StartCtxDone, StartReturns,
                       StopDone, StopDeadline, StopReturns
  <2>17. CASE UNCHANGED vars
    BY <2>2, <2>17 DEF vars
  <2> QED
    BY <1>2, <2>3, <2>4, <2>5, <2>6, <2>8, <2>9, <2>10, <2>11, <2>12, <2>13, <2>14,
       <2>15, <2>16, <2>17 DEF Next, Call, Local, SDK, Owner
<1> QED
  BY <1>1, <1>2, Inductive, PTL DEF Spec, ImplementsSupervisor, Abstract!Spec

=============================================================================
