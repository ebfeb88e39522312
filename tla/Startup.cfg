\* Every call may fail, at the preferred address of the DLL and at another.
CONSTANTS
  MaxProcessId = 25
  OwnProcessId = 5
  CommandLines <- MCCommandLines
  DllFiles <- MCDllFiles
  LoadBases = {100, 300}
  DwordModulus = 16
  MapperFaults <- Calls
SPECIFICATION StartupSpec
INVARIANTS
  StartupTypeOK
  SessionOptionsSound
  HooksAllOrNone
  CommandLineRoundTrip
  InjectAllOrNothing
  ImageComplete
  HandlersReachable
\* apiscope exits, or goes on with DebugSession.
CHECK_DEADLOCK FALSE
