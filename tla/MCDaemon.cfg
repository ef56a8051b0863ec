CONSTANTS
  o = o
  a = a
  b = b
  t = t
  near = near
  far = far
\* Startup
  Starts = {1, 2}
  Stops = {1, 2}
  Apps = {a1}
\* Flood
  Systems = {o, a, b, t}
  Links <- Ring
  Origin = o
  Target = t
  MaxHops = 3
  MaxLosses = 1
\* Keepalive
  Near = near
  Far = far
  SendLimit = 2
  MaxStarts = 2
  MaxLost = 1
  MaxInFlight = 3
SPECIFICATION Spec
CHECK_DEADLOCK FALSE
INVARIANTS StopsReachAll PathsTaken RenewedIsReached
PROPERTIES  AnswerArrives PeerAuthenticates
