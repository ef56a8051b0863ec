CONSTANTS
  l = l
  g = g
  b = b
  prog = prog
  x = x
  y = y
  z = z
  Local = {l}
  Global = {g}
  Broadcast = {b}
  Addr = {prog, x, y, z}
  Senders <- SendersHere
  Routed = {z}
  Unreachable = {x}
  BroadcastAddr = everyone
  NoAddr = nobody
  RecvLimit = 2
  SendLimit = 3
  LocalLife = 1
  RemoteLife = 1
SPECIFICATION Spec
INVARIANTS  PointerInMemory
PROPERTIES  SilentPeersForgotten
