------------------------- MODULE MCTraceEventCodec -------------------------
(* The limits of trace_protocol.h, every hook of the repository, and hooks *)
(* of the user's own whose fields end before, at and behind the limit.     *)
EXTENDS TraceEventCodec

Wide(name, bytes) == Call("wide", "wide", bytes, name)

\* With names of one letter, a.dll!F takes 38 bytes and a field of 512 bytes
\* 517; then 464 fills the event exactly.
Calls == {Wide("s", 512), Wide("t", 464), Wide("t", 466), Wide("u", 514),
          Pointer("handle"), Call("fixed", "boolean", 1, "b"),
          Pointer("Bad"), Preview("p"), Wide("path", 0)}

\* The limits of trace_protocol.h leave room for what the hooks record.
ASSUME LimitsSuffice == RoomForHooks
=============================================================================
