\* Two Agents: a new attempt may have to wait until the handler of a call that
\* came through the last session but one has run, which SDKFairness provides.
\* MaxFailures = 0 and Cap = 1 turn the history and the backoff off: liveness
\* does not depend on how long a wait is.
CONSTANTS
  Agents = {a1, a2}
  NoAgent = NoAgent
  RPCIds = {r1}
  NumEndpoints = 1
  MaxFailures = 0
  Base = 1
  Cap = 1
  Second = 1
SPECIFICATION StopSpec
PROPERTIES
  StopTerminates
  LostSessionReplaced
  RestartHonoured
  KeepsTrying
