CONSTANTS
  a = a
  b = b
  x4 = x4
  y4 = y4
  z6 = z6
\* Routing
  AddressBits = 2
  PeersPerBit = 2
  MaxPings = 2
  MyAddress <- MCMyAddress
  MyIps = {}
  Version <- MCVersion
  Infos <- MCInfos
  Vacant = Vacant
\* Exchange
  Users = {a, b}
  Pairs <- MCPairs
  MaxSecrets = 2
  NoKey = NoKey
  Resends = {a}
\* Requests
  PrefixBits = 3
  BitmapLog = 2
  ByteBits = 2
  AddressRequests = 1
  OwnTrace = 1
  ContactAddresses <- MCContactAddresses
  Ids = {0, 5}
  MaxKeysets = 2
  MaxUnacked = 1
SPECIFICATION Spec
CHECK_DEADLOCK FALSE
INVARIANTS CloserPeersFound KeysMatch
PROPERTIES SilentPeersArePinged BothGetKeys RequestFindsMail
