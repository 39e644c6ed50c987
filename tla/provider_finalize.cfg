CONSTANTS
  Call = {c1, c2}
  Request = {q1, q2}
  Poller = {p}
  Mode = {"resume"}
  Kind = {"plain", "stream"}
  Cost = {1, 4}
  Ceiling = 5
  MaxCalls = 2
  Input = 1
  MaxOutput = 2
  Expires = 2
  MaxFaults = 1
SPECIFICATION Spec
SYMMETRY Interchangeable
PROPERTIES FinalizeRepeats
CHECK_DEADLOCK FALSE
