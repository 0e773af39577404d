\* A client that calls queue_get on an empty queue, as test_queue.c does.
CONSTANTS
  v1 = v1
  v2 = v2
  z = z
  Zero = z
  Val <- MCVal
  InitSizes <- MCInitSizes
  MaxLen = 3
  Careful = FALSE
  U32 = 1024

SPECIFICATION Spec
CHECK_DEADLOCK FALSE

PROPERTIES
  GetOnEmptyFails
