\* The real limits, all hooks, and up to four fields of a hook of the user's own.
CONSTANTS
  EventBytes = 1024
  NameBytes = 63
  BufferBytes = 64
  StringBytes = 512
  Hooks <- HookNames
  CustomModules = {"a.dll", "bad name"}
  CustomCalls <- Calls
  MaxCustom = 4
  BadNames = {"Bad", "bad name"}
  BufferLengths = {0, 1, 64, 65, 4096}
  StringLengths = {0, 1, 2, 511, 512, 513, 514, 65535}
  PathLengths = {2, 470, 512, 514}
  LowParts = 2
  MaxTicks = 5
SPECIFICATION CodecSpec
INVARIANTS CodecTypeOK NothingMalformed FlagsTellLoss HookEventsComplete TimestampNotTorn
\* An event is followed to its end.
CHECK_DEADLOCK FALSE
