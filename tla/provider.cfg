CONSTANTS
  Call = {c1, c2}
  Request = {q1, q2}
  Poller = {p}
  Mode = {"resume", "benchmark"}
  Kind = {"plain", "background", "stream"}
  Cost = {1, 4}
  Ceiling = 5
  MaxCalls = 2
  Input = 1
  MaxOutput = 2
  Expires = 2
  MaxFaults = 1
SPECIFICATION Spec
SYMMETRY Interchangeable
INVARIANTS TypeOK BudgetHeld PaidOnce BookedIsTrueOrWhole EveryReservationOwned ReportIsClaimed
PROPERTIES AccountSpec
CHECK_DEADLOCK FALSE
