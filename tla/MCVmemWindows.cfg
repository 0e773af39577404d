\* One thread with a ring and two that reserve, commit and free.
CONSTANTS
  r1 = r1
  r2 = r2
  u1 = u1
  u2 = u2
  None = None
  Ringers <- MCRinger
  Users <- MCUsers
  Space = 5
  Repeat = 3
  Sizes <- MCSizes
  Attempts = 3

SPECIFICATION Spec

INVARIANTS
  TypeOK
  RingKept
  RegionKept
  NoStrayViews

PROPERTIES
  Returns
