\* Words of 4 and of 8 stand for the u16 that counts and that scans.
CONSTANTS
  Paths <- MCPaths
  Options <- MCOptions
  args <- MCArgs
  NULL = NULL
  MaxArgs = 3
  Chars <- MCChars
  MaxPath = 4
  SelfSize = 4
  U16 = 8
  Codepoints <- MCCodepoints
  MaxText = 2
  Lengths <- MCLengths
  U32Bytes = 128
  UINT64_MAX = 4095
  MaxLines = 4
  Counts = 4
  Keys <- MCKeys
  Mods <- MCMods
  PadStates <- MCPadStates
  Buttons <- MCButtons
  Joysticks <- MCJoysticks
  PadButtons <- MCPadButtons
  Axes <- MCAxes
  JOYSTICK_LAST = 2

SPECIFICATION Spec
CHECK_DEADLOCK FALSE

INVARIANTS
  LastTwo
  PathsRight
  Transcoded
  Padded
  ObjInBounds
  InputAgrees

PROPERTIES
  HelperReturns
