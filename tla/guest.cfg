\* Two terminals of one pilot under the refuse policy, and a guest.
SPECIFICATION Spec
CONSTANTS
  s1 = s1
  s2 = s2
  s3 = s3
  k1 = k1
  g1 = g1
  None = None
  Closer = Closer
  Sessions = {s1, s2, s3}
  Saves = {k1}
  Guests = {g1}
  KeyOf <- WithGuest
  Policy = "refuse"
  MaxVer = 2
  MaxBoots = 0
INVARIANTS
  GuestsLeaveNothing
  NilShutdownSavedAll
PROPERTIES
  SeatIsKept
