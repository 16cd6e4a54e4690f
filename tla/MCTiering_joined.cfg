CONSTANTS
  NObjects = 3
  Begin <- Joined
SPECIFICATION Spec
INVARIANT CleanIsFlushed
CHECK_DEADLOCK FALSE
