\* Every way to end the session, with the status footer, failing wakeups and waits, and terminated threads.
CONSTANTS
  Producers = {t1, t2}
  Payloads <- MCPayloads
  Places = 2
  LongModulus = 5
  QueueCapacity = 1
  ReadBatch = 2
  FooterEnabled = TRUE
  MaxEmits = 2
  MaxEvents = 3
  MaxStops = 2
  Endings = {"quiesced", "halted", "abandoned"}
  Faults = {"StartFails", "SetEventFails", "WaitFails", "ThreadDies"}
SPECIFICATION SessionSpec
SYMMETRY Symmetry
INVARIANTS SessionTypeOK PipelineOrder CleanStopComplete RingOutlivesThreads
PROPERTY SummaryFinal
\* The session ends.
CHECK_DEADLOCK FALSE
