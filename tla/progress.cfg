\* What must happen in the end.
SPECIFICATION FairSpec
CONSTANTS
  s1 = s1
  s2 = s2
  s3 = s3
  k1 = k1
  g1 = g1
  None = None
  Closer = Closer
  Sessions = {s1, s2}
  Saves = {k1}
  Guests = {}
  KeyOf <- Pair
  Policy = "takeover"
  MaxVer = 3
  MaxBoots = 0
PROPERTIES
  DetachCompletes
  KickedTerminalGoes
  ShutdownCompletes
  RetainedSaveIsRetried
