CONSTANTS
  WordBits = 6
  ByteBits = 3
  Unroll = 2
  Squarings = 4
  Nhalf = 1
  SieveSize = 4
  Randoms = {0, 1, 38, 55}
  Draws = {2, 3, 62}
  Exponents = {7, 13, 23}
  Messages <- FirstMessages
  Edges = {0, 1, 31, 32, 63}
  HashSize = 1
  Bytes = {0, 1}
  Bytes8 = {0, 3, 129, 255}
  TextSizes <- TextsAroundABlock
  LineLength = 4
  RsaSize = 12
  RsaOverhead = 4
  AesSize = 2
  AesBlock = 2
  Counters = 4
SPECIFICATION Spec
CHECK_DEADLOCK FALSE
INVARIANTS EveryKeyReadsBack
