CONSTANTS
  Builds = {v1, v2, unset}
  Unversioned = unset
  Workers = {w1, w2}
  RetryAttempts = 2
SYMMETRY Symmetry
SPECIFICATION Spec
INVARIANTS
  RestartNotMisread
