CONSTANTS
  Agents = {a1, a2, a3}
  NoAgent = NoAgent
  RPCIds = {r1}
  NumEndpoints = 1
  MaxFailures = 0
  Base = 1
  Cap = 1
  Second = 1
SPECIFICATION Spec
PROPERTIES
  RestartHitsOwnSession
