\* Two threads with rings.
CONSTANTS
  r1 = r1
  r2 = r2
  u1 = u1
  u2 = u2
  None = None
  Ringers <- MCRingers
  Users <- MCUser
  Space = 5
  Repeat = 2
  Sizes <- MCSizes
  Attempts = 2

SPECIFICATION Spec

INVARIANTS
  RingKept
