----------------------------- MODULE Supervisor -----------------------------
(***************************************************************************)
(* What the tunnel package promises its owner, without its goroutines,      *)
(* channels and calls: a status, the set of sessions the process has with   *)
(* ngrok, and whether a stop was asked for.  Manager implements it.         *)
(***************************************************************************)
CONSTANT Agents

VARIABLES state,     \* Status.State
          open,      \* the Agents that have a session
          stopAsked  \* Stop was called

vars == <<state, open, stopAsked>>

Init == state = "connecting" /\ open = {} /\ stopAsked = FALSE

\* A session is opened only where there is none, by an attempt.
Open ==
  /\ state = "connecting" /\ open = {}
  /\ \E a \in Agents : open' = {a}
  /\ UNCHANGED <<state, stopAsked>>

\* Connected is announced with a session open.
Announce ==
  /\ state = "connecting" /\ open # {}
  /\ state' = "connected"
  /\ UNCHANGED <<open, stopAsked>>

\* Closing the session precedes the status that says so.
Close ==
  /\ state \in {"connecting", "connected"}
  /\ open # {} /\ open' = {}
  /\ UNCHANGED <<state, stopAsked>>

\* An attempt, or the session it opened, has ended, and another will follow.
GiveWay ==
  /\ state \in {"connecting", "connected"} /\ open = {}
  /\ state' = "reconnecting"
  /\ UNCHANGED <<open, stopAsked>>

Retry ==
  /\ state = "reconnecting"
  /\ state' = "connecting"
  /\ UNCHANGED <<open, stopAsked>>

AskStop == stopAsked' = TRUE /\ UNCHANGED <<state, open>>

\* Only a stop that was asked for stops, and with nothing left open.
Stop ==
  /\ stopAsked /\ open = {}
  /\ state' = "stopped"
  /\ UNCHANGED <<open, stopAsked>>

Next == Open \/ Announce \/ Close \/ GiveWay \/ Retry \/ AskStop \/ Stop

Spec == Init /\ [][Next]_vars
=============================================================================
