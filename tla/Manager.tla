------------------------------ MODULE Manager ------------------------------
(***************************************************************************)
(* The tunnel supervisor of internal/tunnel/manager.go and rpc.go: one      *)
(* goroutine, run, that builds an Agent, connects it, forwards every        *)
(* endpoint, serves until something ends the session and starts again after *)
(* a backoff; the SDK, which loses sessions, reports their loss and calls   *)
(* the dashboard's RPC handler from its own goroutines; and the owner (the  *)
(* foreground program or the Windows service), which calls Start and Stop.  *)
(*                                                                          *)
(* Each step of the model is the code between two points where another      *)
(* goroutine can look: a call into the SDK, a channel operation, a status   *)
(* write.  Time is not modelled: a timer that is running may fire.          *)
(*                                                                          *)
(* An Agent is built anew by every attempt.  Its identity is an element of  *)
(* Agents, taken again once nothing in the state refers to it, so that the  *)
(* behaviours of the model are not bounded by a number of attempts.         *)
(***************************************************************************)
EXTENDS Backoff, Sequences, FiniteSets

CONSTANTS Agents,        \* identities of Agent values
          NoAgent,       \* no Agent (nil)
          RPCIds,        \* dashboard calls that can be in flight at once
          NumEndpoints,  \* len(cfg.Endpoints)
          MaxFailures    \* where the history variable failures saturates

ASSUME ManagerAssumption ==
  /\ NoAgent \notin Agents
  /\ NumEndpoints \in Nat
  /\ MaxFailures \in Nat

VARIABLES
  \* run and connectAndServe: program counter and locals
  runPc, agent, idx, err, wait,
  backoff,          \* m.backoff.current
  status,           \* m.status
  \* the channels of Manager
  restart,          \* cap 1: NoAgent when empty, else the Agent whose RPC filled it
  stopRequested,    \* how often close(m.stopRequested) ran
  firstConnect,     \* how often close(m.firstConnect) ran
  \* the owner
  canceled,         \* runCtx is done
  startPc, stopPc,
  \* the SDK
  session,          \* what became of each Agent's session
  disconnected,     \* cap 1, the channel of the current connectAndServe
  rpc,              \* the RPC handler calls in flight
  \* history, read by properties only
  failures,         \* attempts ended since the last published connection
  stopBetween       \* Stop canceled runCtx while no attempt was under way

runVars   == <<runPc, agent, idx, err, wait, backoff>>
chanVars  == <<restart, stopRequested, firstConnect>>
ownerVars == <<canceled, startPc, stopPc>>
sdkVars   == <<session, disconnected, rpc>>
auxVars   == <<failures, stopBetween>>
vars == <<runVars, status, chanVars, ownerVars, sdkVars, auxVars>>

-----------------------------------------------------------------------------
(* Values *)

(* "nil" no error, "ctx" runCtx.Err(), "listed" an ngrok.Error whose code is *)
(* in fatalCodes, "plain" every other error.                                 *)
Errors  == {"nil", "ctx", "plain", "listed"}
States  == {"connecting", "connected", "reconnecting", "stopped"}
Status  == [state : States, lastError : Errors, endpoints : Seq(Agents)]
Methods == {"stop", "restart", "update"}

RunPcs == {"idle", "loop", "announce", "build", "connect", "forward", "signal",
           "serve", "teardown", "returned", "backoff", "stopping", "exited"}
BetweenPcs == {"loop", "returned", "backoff"}   \* between two attempts
HoldingPcs == {"forward", "signal", "serve", "teardown"}   \* a Disconnect is deferred
SessionStates == {"none", "up", "lost", "reported"}

NoRPC == [method |-> "none", from |-> NoAgent]
RPCs  == [method : Methods, from : Agents] \cup {NoRPC}

\* classify: a class only stretches the wait, it never ends the retries.
classify(e) == IF e = "listed" THEN "fatal" ELSE "retryable"

\* An Agent no part of the state refers to.
Fresh(a) ==
  /\ session[a] = "none"
  /\ a # agent
  /\ a # restart
  /\ \A i \in RPCIds : rpc[i].from # a

OpenSessions == {a \in Agents : session[a] # "none"}

\* What the SDK may answer to a call that fails; once runCtx is done, its error.
CallErrors == {"plain", "listed"} \cup (IF canceled THEN {"ctx"} ELSE {})

\* Variant for comparison: the close without its sync.Once.
CloseAlways(n) == n + 1

\* close of a channel guarded by a sync.Once; a second close would panic.
CloseOnce(n) == IF n = 0 THEN 1 ELSE n

-----------------------------------------------------------------------------
Init ==
  /\ runPc = "idle" /\ agent = NoAgent /\ idx = 0 /\ err = "nil" /\ wait = 0
  /\ backoff = Base
  /\ status = [state |-> "connecting", lastError |-> "nil", endpoints |-> <<>>]
  /\ restart = NoAgent /\ stopRequested = 0 /\ firstConnect = 0
  /\ canceled = FALSE /\ startPc = "idle" /\ stopPc = "idle"
  /\ session = [a \in Agents |-> "none"]
  /\ disconnected = "empty"
  /\ rpc = [i \in RPCIds |-> NoRPC]
  /\ failures = 0 /\ stopBetween = FALSE

-----------------------------------------------------------------------------
(* run *)

\* setStatus(StateStopped) and return, from each of run's three exits
StopRun ==
  /\ runPc' = "stopping"
  /\ status' = [status EXCEPT !.state = "stopped"]
  /\ err' = "nil" /\ wait' = 0
  /\ UNCHANGED <<agent, idx, backoff, failures>>

\* Variant: no poll of ctx.Done() at the top of the loop.
LoopTopBlind ==
  /\ runPc = "loop" /\ runPc' = "announce"
  /\ UNCHANGED <<agent, idx, err, wait, backoff, status, chanVars, ownerVars, sdkVars, auxVars>>

\* Variant: a break that leaves the select and not the loop.
LoopTopBreak ==
  /\ runPc = "loop" /\ runPc' = "announce"
  /\ status' = IF canceled THEN [status EXCEPT !.state = "stopped"] ELSE status
  /\ UNCHANGED <<agent, idx, err, wait, backoff, chanVars, ownerVars, sdkVars, auxVars>>

\* the poll of ctx.Done() at the top of the loop
LoopTop ==
  /\ runPc = "loop"
  /\ IF canceled
       THEN StopRun
       ELSE /\ runPc' = "announce"
            /\ UNCHANGED <<agent, idx, err, wait, backoff, status, failures>>
  /\ UNCHANGED <<chanVars, ownerVars, sdkVars, stopBetween>>

Announce ==
  /\ runPc = "announce"
  /\ runPc' = "build"
  /\ status' = [status EXCEPT !.state = "connecting"]
  /\ UNCHANGED <<agent, idx, err, wait, backoff, chanVars, ownerVars, sdkVars, auxVars>>

(* creds.Resolve and the factory: a new Agent and a new disconnected channel, *)
(* or an error.                                                               *)
BuildAgent ==
  /\ runPc = "build"
  /\ \/ \E a \in Agents :
          /\ Fresh(a)
          /\ agent' = a
          /\ runPc' = "connect"
          /\ UNCHANGED err
     \/ \E e \in CallErrors :
          /\ err' = e
          /\ runPc' = "returned"
          /\ UNCHANGED agent
  /\ disconnected' = "empty"
  /\ UNCHANGED <<idx, wait, backoff, status, chanVars, ownerVars, session, rpc, auxVars>>

(* Agent.Connect.  An Agent that fails to connect is dropped without a         *)
(* Disconnect; one that connects clears the endpoints of the session before.   *)
ConnectAgent ==
  /\ runPc = "connect"
  /\ \/ /\ session' = [session EXCEPT ![agent] = "up"]
        /\ status' = [status EXCEPT !.endpoints = <<>>]
        /\ idx' = 1
        /\ runPc' = "forward"
        /\ UNCHANGED <<agent, err>>
     \/ \E e \in CallErrors :
          /\ err' = e
          /\ agent' = NoAgent
          /\ runPc' = "returned"
          /\ UNCHANGED <<session, status, idx>>
  /\ UNCHANGED <<wait, backoff, chanVars, ownerVars, disconnected, rpc, auxVars>>

\* Variant: return on an error with no deferred Disconnect.
ForwardLeak ==
  /\ runPc = "forward" /\ idx <= NumEndpoints
  /\ \/ /\ session[agent] = "up"
        /\ status' = [status EXCEPT !.endpoints = Append(@, agent)]
        /\ idx' = idx + 1
        /\ UNCHANGED <<runPc, err, agent>>
     \/ /\ err' = "plain" /\ agent' = NoAgent /\ runPc' = "returned"
        /\ UNCHANGED <<status, idx>>
  /\ UNCHANGED <<wait, backoff, chanVars, ownerVars, sdkVars, auxVars>>

\* Variant: an endpoint that fails is logged and skipped.
ForwardSkip ==
  /\ runPc = "forward" /\ idx <= NumEndpoints
  /\ idx' = idx + 1
  /\ \/ UNCHANGED status
     \/ session[agent] = "up" /\ status' = [status EXCEPT !.endpoints = Append(@, agent)]
  /\ UNCHANGED <<runPc, agent, err, wait, backoff, chanVars, ownerVars, sdkVars, auxVars>>

\* Build and Agent.Forward for one endpoint: one more in the status, or an error.
ForwardEndpoint ==
  /\ runPc = "forward"
  /\ idx <= NumEndpoints
  /\ \/ /\ session[agent] = "up"
        /\ status' = [status EXCEPT !.endpoints = Append(@, agent)]
        /\ idx' = idx + 1
        /\ UNCHANGED <<runPc, err>>
     \/ \E e \in CallErrors :
          /\ err' = e
          /\ runPc' = "teardown"
          /\ UNCHANGED <<status, idx>>
  /\ UNCHANGED <<agent, wait, backoff, chanVars, ownerVars, sdkVars, auxVars>>

\* Variant: no Reset on success.
PublishNoReset ==
  /\ runPc = "forward" /\ idx > NumEndpoints
  /\ status' = [status EXCEPT !.state = "connected", !.lastError = "nil"]
  /\ runPc' = "signal" /\ failures' = 0
  /\ UNCHANGED <<agent, idx, err, wait, backoff, chanVars, ownerVars, sdkVars, stopBetween>>

\* Every endpoint forwards: forget the backoff and publish StateConnected.
Publish ==
  /\ runPc = "forward"
  /\ idx > NumEndpoints
  /\ backoff' = Base
  /\ status' = [status EXCEPT !.state = "connected", !.lastError = "nil"]
  /\ runPc' = "signal"
  /\ failures' = 0
  /\ UNCHANGED <<agent, idx, err, wait, chanVars, ownerVars, sdkVars, stopBetween>>

\* firstConnectOnce.Do
SignalFirst ==
  /\ runPc = "signal"
  /\ firstConnect' = CloseOnce(firstConnect)
  /\ runPc' = "serve"
  /\ UNCHANGED <<agent, idx, err, wait, backoff, status, restart, stopRequested,
                 ownerVars, sdkVars, auxVars>>

\* Variant: the select without its ctx.Done() case.
ServeNoCtx == FALSE

(* The select that serves a session: any case that is ready may be taken.    *)
ServeCanceled ==
  /\ runPc = "serve"
  /\ canceled
  /\ err' = "ctx"
  /\ runPc' = "teardown"
  /\ UNCHANGED <<agent, idx, wait, backoff, status, chanVars, ownerVars, sdkVars, auxVars>>

ServeDisconnected ==
  /\ runPc = "serve"
  /\ disconnected # "empty"
  /\ err' = disconnected
  /\ disconnected' = "empty"
  /\ runPc' = "teardown"
  /\ UNCHANGED <<agent, idx, wait, backoff, status, chanVars, ownerVars, session, rpc, auxVars>>

\* Variant: a token of an earlier session is ignored and stays in the channel.
ServeRestartOwn ==
  /\ runPc = "serve" /\ restart = agent
  /\ err' = "nil" /\ restart' = NoAgent /\ runPc' = "teardown"
  /\ UNCHANGED <<agent, idx, wait, backoff, status, stopRequested, firstConnect,
                 ownerVars, sdkVars, auxVars>>

ServeRestart ==
  /\ runPc = "serve"
  /\ restart # NoAgent
  /\ err' = "nil"
  /\ restart' = NoAgent
  /\ runPc' = "teardown"
  /\ UNCHANGED <<agent, idx, wait, backoff, status, stopRequested, firstConnect,
                 ownerVars, sdkVars, auxVars>>

\* Variant: no deferred Disconnect.
TeardownKeepsSession ==
  /\ runPc = "teardown" /\ runPc' = "returned"
  /\ agent' = NoAgent /\ idx' = 0
  /\ UNCHANGED <<err, wait, backoff, status, chanVars, ownerVars, sdkVars, auxVars>>

\* The deferred Agent.Disconnect of a connectAndServe that had connected.
Teardown ==
  /\ runPc = "teardown"
  /\ session' = [session EXCEPT ![agent] = "none"]
  /\ agent' = NoAgent
  /\ idx' = 0
  /\ runPc' = "returned"
  /\ UNCHANGED <<err, wait, backoff, status, chanVars, ownerVars,
                 disconnected, rpc, auxVars>>

\* Variant: no check of ctx.Err() before the error is recorded.
ReturnedNoCtx ==
  /\ runPc = "returned" /\ runPc' = "backoff"
  /\ status' = [status EXCEPT !.state = "reconnecting", !.lastError = err]
  /\ wait' \in Waits(backoff, classify(err))
  /\ backoff' = Advance(backoff)
  /\ failures' = IF failures < MaxFailures THEN failures + 1 ELSE failures
  /\ UNCHANGED <<agent, idx, err, chanVars, ownerVars, sdkVars, stopBetween>>

\* Variant: a fatal error ends the loop.
ReturnedGivesUp ==
  /\ runPc = "returned"
  /\ runPc' = IF classify(err) = "fatal" THEN "stopping" ELSE "backoff"
  /\ UNCHANGED <<agent, idx, err, wait, backoff, status, chanVars, ownerVars, sdkVars, auxVars>>

(* connectAndServe has returned: a Stop ends the loop, and everything else is  *)
(* reported and retried after a wait drawn for its class.                      *)
Returned ==
  /\ runPc = "returned"
  /\ IF canceled
       THEN StopRun
       ELSE /\ status' = [status EXCEPT !.state = "reconnecting", !.lastError = err]
            /\ wait' \in Waits(backoff, classify(err))
            /\ backoff' = Advance(backoff)
            /\ runPc' = "backoff"
            /\ failures' = IF failures < MaxFailures THEN failures + 1 ELSE failures
            /\ err' = "nil"
            /\ UNCHANGED <<agent, idx>>
  /\ UNCHANGED <<chanVars, ownerVars, sdkVars, stopBetween>>

\* The select over the wait: a Stop, or the timer (either, if both are ready).
BackoffWake ==
  /\ runPc = "backoff"
  /\ \/ canceled /\ StopRun
     \/ /\ runPc' = "loop"
        /\ wait' = 0
        /\ UNCHANGED <<agent, idx, err, backoff, status, failures>>
  /\ UNCHANGED <<chanVars, ownerVars, sdkVars, stopBetween>>

\* the deferred close(m.done)
CloseDone ==
  /\ runPc = "stopping"
  /\ runPc' = "exited"
  /\ UNCHANGED <<agent, idx, err, wait, backoff, status, chanVars, ownerVars, sdkVars, auxVars>>

\* The calls whose return is up to the SDK, the credential store or the network.
Call == BuildAgent \/ ConnectAgent \/ ForwardEndpoint

\* The steps that are the Go runtime's to schedule (Disconnect is a local close).
Local ==
  \/ LoopTop \/ Announce \/ Publish \/ SignalFirst
  \/ ServeCanceled \/ ServeDisconnected \/ ServeRestart
  \/ Teardown \/ Returned \/ BackoffWake \/ CloseDone

-----------------------------------------------------------------------------
(* The SDK *)

SessionDrops(a) ==
  /\ session[a] = "up"
  /\ session' = [session EXCEPT ![a] = "lost"]
  /\ UNCHANGED <<runVars, status, chanVars, ownerVars, disconnected, rpc, auxVars>>

\* Variant: an unbuffered disconnected channel, which only a waiting select receives from.
DeliverEventUnbuffered(a) ==
  /\ session[a] = "lost"
  /\ session' = [session EXCEPT ![a] = "reported"]
  /\ disconnected' = IF runPc = "serve" THEN "plain" ELSE disconnected
  /\ UNCHANGED <<runVars, status, chanVars, ownerVars, rpc, auxVars>>

(* The event handler, a non-blocking send of the error, which may be nil.  An  *)
(* event the SDK raises for an Agent already torn down goes to a channel       *)
(* nobody reads any more, and is left out.                                     *)
DeliverEvent(a) ==
  /\ session[a] = "lost"
  /\ session' = [session EXCEPT ![a] = "reported"]
  /\ IF disconnected = "empty"
       THEN disconnected' \in {"nil", "plain", "listed"}
       ELSE UNCHANGED disconnected
  /\ UNCHANGED <<runVars, status, chanVars, ownerVars, rpc, auxVars>>

\* A dashboard call reaches a session; the handler may run after that session.
RPCArrives(i) ==
  /\ rpc[i] = NoRPC
  /\ \E a \in Agents, m \in Methods :
       /\ session[a] = "up"
       /\ rpc' = [rpc EXCEPT ![i] = [method |-> m, from |-> a]]
  /\ UNCHANGED <<runVars, status, chanVars, ownerVars, session, disconnected, auxVars>>

(* handleRPC.  A stop only tells the owner; a restart is a non-blocking send;  *)
(* an update starts a goroutine of its own (module Update) and returns.        *)
HandleRPC(i) ==
  /\ rpc[i] # NoRPC
  /\ rpc' = [rpc EXCEPT ![i] = NoRPC]
  /\ stopRequested' = IF rpc[i].method = "stop" THEN CloseOnce(stopRequested)
                                                ELSE stopRequested
  /\ restart' = IF rpc[i].method = "restart" /\ restart = NoAgent THEN rpc[i].from
                                                                  ELSE restart
  /\ UNCHANGED <<runVars, status, firstConnect, ownerVars, session, disconnected, auxVars>>

SDK ==
  \/ \E a \in Agents : SessionDrops(a) \/ DeliverEvent(a)
  \/ \E i \in RPCIds : RPCArrives(i) \/ HandleRPC(i)

-----------------------------------------------------------------------------
(* The owner.  It calls Stop only after Start has returned, as both service    *)
(* wrappers do; a Stop before Start returns at once and changes nothing.       *)

Start ==
  /\ startPc = "idle"
  /\ startPc' = "waiting"
  /\ runPc' = "loop"
  /\ UNCHANGED <<agent, idx, err, wait, backoff, status, chanVars, canceled, stopPc,
                 sdkVars, auxVars>>

StartReturns(r) ==
  /\ startPc = "waiting"
  /\ startPc' = r
  /\ UNCHANGED <<runVars, status, chanVars, canceled, stopPc, sdkVars, auxVars>>

\* The three cases of Start's select: connected, out of budget, caller's ctx done.
StartConnected == firstConnect > 0 /\ StartReturns("ok")
StartBudget    == StartReturns("ok")
StartCtxDone   == StartReturns("ctxErr")

\* Stop may be called again, and cancels again to no effect.
StopCall ==
  /\ startPc \in {"ok", "ctxErr"}
  /\ stopPc # "waiting"
  /\ stopPc' = "waiting"
  /\ canceled' = TRUE
  /\ stopBetween' = (stopBetween \/ (~canceled /\ runPc \in BetweenPcs))
  /\ UNCHANGED <<runVars, status, chanVars, startPc, sdkVars, failures>>

StopReturns(r) ==
  /\ stopPc = "waiting"
  /\ stopPc' = r
  /\ UNCHANGED <<runVars, status, chanVars, canceled, startPc, sdkVars, auxVars>>

\* Variant: Stop does not wait for m.done.
StopDoneEarly == StopReturns("ok")

\* Stop's select: run has closed done, or the caller's deadline has passed.
StopDone     == runPc = "exited" /\ StopReturns("ok")
StopDeadline == StopReturns("expired")

Owner ==
  \/ Start \/ StartConnected \/ StartBudget \/ StartCtxDone
  \/ StopCall \/ StopDone \/ StopDeadline

-----------------------------------------------------------------------------
Next == Call \/ Local \/ SDK \/ Owner

Spec == Init /\ [][Next]_vars

(* The scheduler runs the goroutine of run, and calls that take runCtx return *)
(* once it is done.                                                           *)
StopFairness ==
  /\ WF_vars(Local)
  /\ WF_vars(canceled /\ Call)

(* Besides, calls into the SDK return in their own time, and the SDK reports a *)
(* loss and runs the handler of a call that has arrived.                       *)
SDKFairness ==
  /\ WF_vars(Call)
  /\ \A a \in Agents : WF_vars(DeliverEvent(a))
  /\ \A i \in RPCIds : WF_vars(HandleRPC(i))

StopSpec == Spec /\ StopFairness

-----------------------------------------------------------------------------
(* Properties *)

\* The type invariant.
TypeOK ==
  /\ runPc \in RunPcs
  /\ agent \in Agents \cup {NoAgent}
  /\ idx \in 0 .. NumEndpoints + 1
  /\ err \in Errors
  /\ wait \in Nat
  /\ backoff \in Base .. Cap
  /\ status \in Status
  /\ restart \in Agents \cup {NoAgent}
  /\ stopRequested \in Nat
  /\ firstConnect \in Nat
  /\ canceled \in BOOLEAN
  /\ startPc \in {"idle", "waiting", "ok", "ctxErr"}
  /\ stopPc \in {"idle", "waiting", "ok", "expired"}
  /\ session \in [Agents -> SessionStates]
  /\ disconnected \in {"empty", "nil", "plain", "listed"}
  /\ rpc \in [RPCIds -> RPCs]
  /\ failures \in 0 .. MaxFailures
  /\ stopBetween \in BOOLEAN

(* No attempt leaves a session behind: an Agent with a session is the one the *)
(* current connectAndServe holds, which is still to disconnect it.  There is  *)
(* therefore at most one, whatever interleaving of drops, restarts and stops  *)
(* ended the sessions before it.                                              *)
NoLeakedSession ==
  \A a \in Agents : session[a] # "none" =>
    a = agent /\ runPc \in HoldingPcs

\* The endpoint list after n successful Forwards of the present Agent.
Forwarded(n) == [k \in 1 .. n |-> agent]

(* What a reader of StatusSnapshot may conclude from StateConnected: the      *)
(* endpoints listed are those of the configuration, all of them forwarded by  *)
(* the Agent of the present session and none of an earlier one.  The loop     *)
(* corrects the state only after connectAndServe has disconnected, so the     *)
(* promise ends where that function returns.                                  *)
ConnectedMeansForwarding ==
  status.state = "connected" /\ runPc # "returned" =>
    /\ agent # NoAgent
    /\ session[agent] # "none"
    /\ status.endpoints = Forwarded(NumEndpoints)

(* A Stop that returned nil has left nothing behind: run has returned, no     *)
(* Agent has a session and the status says so.                                *)
StopMeansQuiescent ==
  stopPc = "ok" =>
    /\ runPc = "exited"
    /\ OpenSessions = {}
    /\ status.state = "stopped"

(* A Stop that comes while run is between two attempts opens no session any   *)
(* more, although the timer of the backoff and the cancellation race.         *)
StopBetweenAttempts == stopBetween => OpenSessions = {}

(* close runs at most once on each channel, over any number of reconnects and *)
(* of stop calls from the dashboard: a second close would panic the process.  *)
NoDoubleClose == firstConnect <= 1 /\ stopRequested <= 1

\* The step that n failed attempts in a row would leave if there were no cap.
Doubled[n \in Nat] == IF n = 0 THEN Base ELSE 2 * Doubled[n - 1]

(* The pace of the retries, over any sequence of failures and successes: the  *)
(* step is Base doubled once per failed attempt since the last published      *)
(* connection, up to Cap; the wait after an attempt is at least a second, and *)
(* below the step that attempt started from (four steps, at most Cap, after a *)
(* listed error).                                                             *)
RetryPacing ==
  /\ backoff = Capped(Doubled[failures])
  /\ runPc = "backoff" =>
       LET step == Capped(Doubled[failures - 1])
       IN  /\ failures > 0
           /\ wait >= Second
           /\ wait > Second =>
                wait < (IF status.lastError = "listed" THEN Capped(4 * step) ELSE step)

\* A Stop is never recorded as the error of a failed attempt.
StopIsNotAnError == status.lastError # "ctx"

(* The inductive strengthening of the invariants above: what each program     *)
(* point of run knows of the Agent it holds, ...                              *)
AgentByPc ==
  /\ runPc = "connect" => agent \in Agents /\ session[agent] = "none"
  /\ runPc \in HoldingPcs => agent \in Agents /\ session[agent] # "none"
  /\ runPc \notin HoldingPcs \cup {"connect"} => agent = NoAgent

(* ... of the status it has written, ...                                      *)
StatusByPc ==
  /\ runPc \in {"idle", "build", "connect", "forward"} => status.state = "connecting"
  /\ runPc \in {"signal", "serve"} => status.state = "connected"
  /\ runPc \in {"teardown", "returned"} => status.state \in {"connecting", "connected"}
  /\ runPc \in {"loop", "announce"} => status.state \in {"connecting", "reconnecting"}
  /\ runPc = "backoff" => status.state = "reconnecting"
  /\ runPc \in {"stopping", "exited"} => status.state = "stopped"
  /\ runPc = "forward" => idx >= 1 /\ status.endpoints = Forwarded(idx - 1)
  /\ runPc \in HoldingPcs /\ status.state = "connected" =>
       status.endpoints = Forwarded(NumEndpoints)

(* ... and of the cancellation, which run leaves the loop for and nothing else. *)
CancelByPc ==
  /\ canceled => startPc \in {"ok", "ctxErr"}
  /\ startPc = "idle" <=> runPc = "idle"
  /\ runPc \in {"stopping", "exited"} => canceled
  /\ stopPc = "ok" => runPc = "exited"
  /\ stopBetween => canceled /\ runPc \in BetweenPcs \cup {"stopping", "exited"}
  /\ err = "ctx" => canceled

RunInv == AgentByPc /\ StatusByPc /\ CancelByPc

(* Stopped is final: after it no step changes what the status says, opens a   *)
(* session or starts run again.                                               *)
StoppedIsFinal ==
  [][status.state = "stopped" =>
       /\ status' = status
       /\ session' = session
       /\ runPc' \in {"stopping", "exited"}]_vars

(* RestartAgentMethod "disconnects the current Agent" (rpc.go): the session a *)
(* restart ends is the one its call came through.                             *)
RestartHitsOwnSession ==
  [][restart # NoAgent /\ restart' = NoAgent => restart = agent]_vars

(* Once Stop has canceled runCtx, run returns.                                *)
StopTerminates == canceled ~> runPc = "exited"

(* A session that is lost is replaced: a new attempt begins, unless Stop was  *)
(* called.                                                                    *)
LostSessionReplaced == SDKFairness =>
  \A a \in Agents : session[a] = "lost" ~> (runPc = "build" \/ canceled)

(* A restart from the dashboard takes effect: a session that is served while  *)
(* the restart is pending ends and another attempt begins, unless Stop was     *)
(* called.                                                                    *)
RestartHonoured == SDKFairness =>
  (restart # NoAgent /\ runPc = "serve") ~> (runPc = "build" \/ canceled)

(* The loop never gives up: whatever error ended an attempt, listed ones      *)
(* included, another attempt follows unless Stop was called.                  *)
KeepsTrying == SDKFairness =>
  (runPc = "returned" ~> (runPc = "build" \/ canceled))

-----------------------------------------------------------------------------
(* Manager implements Supervisor: the status and the cancellation as they     *)
(* are, and an open session is one Connect returned and Disconnect has not    *)
(* ended, whether or not the SDK has lost it in between.                      *)
Abstract == INSTANCE Supervisor
  WITH state <- status.state, open <- OpenSessions, stopAsked <- canceled

(* The refinement: the order of session, status and stop that Supervisor      *)
(* promises is kept by every interleaving of run, SDK and owner.              *)
ImplementsSupervisor == Abstract!Spec

=============================================================================
