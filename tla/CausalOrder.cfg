\* A close whose event is overtaken by the open that reuses the handle number.
CONSTANTS
  a = a
  b = b
  c = c
  Sep = Sep
  Threads = {t1, t2}
  Handles = {h1, h2}
  NoHandle = NoHandle
  AbsolutePaths <- Directories
  RelativePaths <- Below
  NoPath = NoPath
  Free = Free
  MaxTracked = 1
  MaxCalls = 3
  Faults = {}
SPECIFICATION TrackerSpec
SYMMETRY Symmetry
INVARIANT ClosesNameReleasedPath
\* The bounded calls end.
CHECK_DEADLOCK FALSE
