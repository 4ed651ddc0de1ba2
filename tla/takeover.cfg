\* Three terminals of one pilot under the takeover policy.
SPECIFICATION Spec
CONSTANTS
  s1 = s1
  s2 = s2
  s3 = s3
  k1 = k1
  g1 = g1
  None = None
  Closer = Closer
  Sessions = {s1, s2, s3}
  Saves = {k1}
  Guests = {}
  KeyOf <- SameSave
  Policy = "takeover"
  MaxVer = 3
  MaxBoots = 1
SYMMETRY Terminals
INVARIANTS
  TypeOK
  SingleWriter
  OwnerStreamOpen
  ReplacedTerminalIsTold
PROPERTIES
  NoRollback
  DurableSpec
