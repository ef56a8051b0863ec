CONSTANTS
  a = a
  g = g
  h = h
  n = n
  k1 = k1
  k2 = k2
  p1 = p1
  p2 = p2
  t1 = t1
  t2 = t2
  i1 = i1
  i2 = i2
  i3 = i3
\* Contacts
  None = None
  People = {a}
  GroupNames = {g, h}
  NewNames = {n}
  Touched = {a}
  Keys = {k1, k2}
  PubKeys = {p1, p2}
  Seconds = {1, 2}
  MaxEntries = 2
  MaxMembers = 2
  MaxSpares = 1
  MayReuse = FALSE
  Hurried = FALSE
  Nameless = FALSE
\* Store
  KeySeq <- MCKeySeq
  MaxSeq = 3
  MaxTime = 2
  MaxRecords = 3
\* RecordText
  Newline = "n"
  Blank = "b"
  Letter = "x"
  AckType = "ack"
  Starts = {"ack", "sent"}
  MaxLength = 3
  MaxSaved = 2
\* Caches
  Capacity = 3
  Texts = {"a", "b", "c"}
  Data = {1, 2, 3, 4}
  Threads = {t1, t2}
\* Priority
  Addresses <- MCAddresses
  ContactsAddress <- MCContactsAddress
  Sizes = {1, 3}
  Saved = 2
  FractionBits = 7
\* Voice
  Block = 4
  Wrap = 16
  FrameSizes = {5, 8}
  EndSize = 3
  MaxTries = 2
  MaxCalls = 2
  MaxRuns = 2
  MaxFrames = 4
  MaxAir = 2
\* PidBloom
  Id = {i1, i2, i3}
  Sel = {0, 1}
  Depth = {0, 1}
  BitOf <- Collide
  NumFilters = 2
  MaxLoad = 2
SYMMETRY KeySymmetry
SPECIFICATION RecordsSpec
CHECK_DEADLOCK FALSE
INVARIANTS AsSaved KeyUsedOnce GroupsClosed  MissingAddsUp ReadsBack CacheInOrder PrioritiesFair NeverForgottenEarly
PROPERTIES  StaysInStep
