CONSTANTS
  a = a
  r = r
  Peer = {a, r}
  Conv <- Pair
  MaxSent <- OneWay
  MaxCrashes = 1
  MaxUnacked = 1
  MaxPush = 1
  MaxAnswer = 2
  Curious <- Receiver
  Slots = {1}
  SlotOf <- OneSlot
  Overlap = FALSE
  Nobody = nobody
SPECIFICATION FairSpec
INVARIANT ToldOnce
PROPERTY EveryMessageAcked
