\* Processes that race, fail and crash; root's sizes fit in a u32.
CONSTANTS
  p1 = p1
  p2 = p2
  root = root
  o1 = o1
  o2 = o2
  NULL = NULL
  Callers <- MCCallers
  Privileged <- MCPrivileged
  Objects <- MCObjects
  Widths <- MCWidths
  Repeats <- MCRepeats
  MayFail <- MCMayFail
  MaxRefused = 1
  Word = 4

SPECIFICATION Spec
SYMMETRY Symmetry

INVARIANTS
  TypeOK
  Ring
  Isolation
  Backed
  NoLitter

PROPERTIES
  AloneSucceeds
  DestroyUnmaps
