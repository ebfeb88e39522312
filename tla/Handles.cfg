\* Two threads open, use and close handles; numbers are reused at once.
CONSTANTS
  a = a
  b = b
  c = c
  Sep = Sep
  Threads = {t1, t2}
  Handles = {h1, h2}
  NoHandle = NoHandle
  AbsolutePaths <- Directories
  RelativePaths <- Below
  NoPath = NoPath
  Free = Free
  MaxTracked = 1
  MaxCalls = 4
  Faults = {"OpenFails", "CloseFails", "Unreadable", "Drops"}
SPECIFICATION TrackerSpec
SYMMETRY Symmetry
INVARIANTS TrackerTypeOK AnnotationsCorrect NoStaleEntry ForgottenForAReason
\* The bounded calls end.
CHECK_DEADLOCK FALSE
