\* The target exits with its threads anywhere.
CONSTANTS
  Producers = {t1, t2}
  Payloads <- MCPayloads
  Places = 2
  LongModulus = 5
  QueueCapacity = 1
  ReadBatch = 1
  FooterEnabled = FALSE
  MaxEmits = 1
  MaxEvents = 4
  MaxStops = 1
  Endings = {"halted"}
  Faults = {}
SPECIFICATION SessionSpec
INVARIANT ExitDrainsRing
\* The session ends.
CHECK_DEADLOCK FALSE
