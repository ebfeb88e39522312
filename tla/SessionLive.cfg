\* A session that may be stopped at any moment; the operating system calls succeed.
CONSTANTS
  Producers = {t1, t2}
  Payloads <- MCPayloads
  Places = 2
  LongModulus = 5
  QueueCapacity = 1
  ReadBatch = 1
  FooterEnabled = FALSE
  MaxEmits = 2
  MaxEvents = 4
  MaxStops = 1
  Endings = {"quiesced"}
  Faults = {}
SPECIFICATION FairSessionSpec
INVARIANT NoLostWakeup
PROPERTIES EventsRendered StopReturns
\* The session ends.
CHECK_DEADLOCK FALSE
