SPECIFICATION Spec
CONSTANTS
  IPs = {ip1}
  Workers = {w1, w2}
  Assigned = {}
  Settings <- MCSettings
  ShouldAnnounce = TRUE
  CallsFail = TRUE
  MaxRequests = 3
CHECK_DEADLOCK FALSE
INVARIANTS RequestsAccounted AnswerOfItsRequest GoneUnlessLate
PROPERTIES RequestsServed ShutdownCompletes
