CONSTANTS
  a = a
  b = b
  g = g
  h = h
  n = n
  k1 = k1
  k2 = k2
  p1 = p1
  p2 = p2
  none = none
  None = none
  People = {a, b}
  GroupNames = {g, h}
  NewNames = {}
  Touched = {a}
  Keys = {k1, k2}
  PubKeys = {p1, p2}
  Seconds = {1, 2}
  MaxEntries = 2
  MaxMembers = 2
  MaxSpares = 1
  MayReuse = FALSE
  Hurried = FALSE
  Nameless = FALSE
SYMMETRY KeySymmetry
SPECIFICATION ContactsSpec
INVARIANTS KeyOfItsContact
