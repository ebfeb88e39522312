\* Fair hook threads that may be terminated anywhere inside EmitTraceEvent, a reader that may stop at any point.
CONSTANTS
  Threads = {t1, t2}
  Capacity = 2
  LongModulus = 4
  MaxEmits = 2
  Faults = {"SetEventFails", "ThreadDies"}
  NoEvent = NoEvent
SPECIFICATION FairRingSpec
INVARIANTS InOrderDelivery SlotExclusion EveryEventAccounted RingInv
PROPERTIES DropOnlyWhenFull ImplementsChannel EmitFinishes
\* The bounded emissions end.
CHECK_DEADLOCK FALSE
