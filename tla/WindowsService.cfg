\* No endpoints: forwarding is the concern of Manager and Foreground, and the
\* liveness of a composition with them takes too long to check.
CONSTANTS
  Agents = {a1, a2}
  NoAgent = NoAgent
  RPCIds = {r1}
  NumEndpoints = 0
  MaxFailures = 0
  Base = 1
  Cap = 1
  Second = 1
  MaxCheckpoint = 2
SPECIFICATION WsFairSpec
INVARIANTS
  NeverLooksLikeACrash
  StoppedHoldsNothing
PROPERTIES
  StartEnds
  StopIsReported
CHECK_DEADLOCK FALSE
