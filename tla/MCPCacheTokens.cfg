CONSTANTS
  m1 = m1
  m2 = m2
  m3 = m3
  m4 = m4
  c1 = c1
  c2 = c2
  c3 = c3
  o1 = o1
  o2 = o2
  o3 = o3
  o4 = o4
  none = none
  Id = {m1, m2, m3}
  Entries = {0}
  EntryOf <- AllInOne
  Size <- UnitSize
  Storage = 3
  Header = 0
  Slots = {0}
  SlotOf <- OneSlot
  AcksPerSlot = 2
  Clients = {c1, c3}
  OwnTokens = {o1, o2, o3, o4}
  NoToken = none
  MaxTokens = 2
  NumFilters = 2
  MaxOverflow = 0
  Priority = {1}
  Expirable = {m1}
  Uncached = {m3}
  Hashed = {}
  LocalClients = {c3}
  AckPackets <- AckOverflow
  Requests <- Everything
  ExternalMax = 1
  LocalMax = 4
SYMMETRY TokenSymmetry
SPECIFICATION Spec
INVARIANTS NoWildRead BitsNameTokens AckSupersedes
PROPERTY ImplementsForwardOnce
