\* Three Agents: a call in flight, a restart token and the present session may
\* each name a different one, so that a new attempt always finds a fresh one.
\* Cap = 5 is no power of two, MaxFailures = 4 is past the failure that meets it.
CONSTANTS
  Agents = {a1, a2, a3}
  NoAgent = NoAgent
  RPCIds = {r1}
  NumEndpoints = 2
  MaxFailures = 4
  Base = 1
  Cap = 5
  Second = 1
SYMMETRY Symmetry
SPECIFICATION Spec
INVARIANTS
  TypeOK
  NoLeakedSession
  ConnectedMeansForwarding
  StopMeansQuiescent
  StopBetweenAttempts
  NoDoubleClose
  RetryPacing
  StopIsNotAnError
PROPERTIES
  ImplementsSupervisor
  StoppedIsFinal
