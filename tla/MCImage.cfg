\* The sizes 5 and 7 are the ones next to the wrap at 6.
CONSTANTS
  MaxChanges = 3
  r1 = r1
  w1 = w1
  None = None
  Readers <- MCReaders
  Writers <- MCWriters
  Inodes <- MCInodes
  Images <- MCImages
  Contents <- MCContents
  Word = 6
  BufSize = 2

SPECIFICATION Spec

INVARIANTS
  TypeOK
  Terminated
  LoadedWhole
  OverrunHasCause
  Saved
  Viewed

PROPERTIES
  LoadReturns
