CONSTANTS
  Block = 4
  Wrap = 16
  FrameSizes = {5, 8}
  EndSize = 3
  MaxTries = 2
  MaxCalls = 2
  MaxRuns = 2
  MaxFrames = 4
  MaxAir = 2
SPECIFICATION VoiceSpec
INVARIANTS AuthenticIsDecrypted
CHECK_DEADLOCK FALSE
