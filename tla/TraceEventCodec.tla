-------------------------- MODULE TraceEventCodec --------------------------
(***************************************************************************)
(* The trace event record (src/include/trace_protocol.h) from its builder  *)
(* to its output: a hook fills a bounded record in the target              *)
(* (apiscope-hooks/trace_transport.cpp), the reader validates it           *)
(* (ParseTraceEvent in trace_renderer.cpp), the handle tracker may append  *)
(* a path (AppendWideString in trace_correlator.cpp), and the writer       *)
(* counts it and parses it again to render it.                             *)
(*                                                                         *)
(* An event is its size, its flags and its fields. A field keeps its type, *)
(* its name and the size of its value; what the value says is left out     *)
(* except the two lengths of a buffer preview, which the validator reads.  *)
(***************************************************************************)
EXTENDS Integers, SequencesExt, FiniteSets

CONSTANTS
  EventBytes,     \* TRACE_MAX_EVENT_BYTES
  NameBytes,      \* TRACE_MAX_{MODULE_NAME,API_NAME,FIELD_NAME}_BYTES
  BufferBytes,    \* TRACE_MAX_BUFFER_BYTES
  StringBytes,    \* TRACE_MAX_STRING_BYTES
  Hooks,          \* the hooks that are tried, see HookCalls
  CustomModules,  \* module names of a hook of the user's own
  CustomCalls,    \* Add calls of such a hook
  MaxCustom,      \* bound: Add calls of such a hook
  BadNames,       \* names with a character that is not allowed
  BufferLengths,  \* bound: lengths of buffers
  StringLengths,  \* bound: UNICODE_STRING::Length
  PathLengths,    \* bound: bytes of a path the handle tracker knows
  LowParts,       \* values of the low part of the system time (2^32)
  MaxTicks        \* bound: updates of the system time during one read

HeaderBytes == 32
FieldHeaderBytes == 4
BytesHeaderBytes == 12

ASSUME CodecAssumption ==
  /\ {EventBytes, NameBytes, BufferBytes, StringBytes, MaxCustom} \subseteq Nat
  /\ HeaderBytes + 2 * NameBytes <= EventBytes
  /\ StringBytes % 2 = 0
  /\ BufferLengths \cup StringLengths \cup PathLengths \subseteq Nat
  /\ \A n \in PathLengths : n % 2 = 0
  /\ LowParts \in Nat \ {0} /\ MaxTicks \in Nat

VARIABLES
  stage,          \* where the event is on its way
  hook,           \* the hook that builds it
  todo,           \* the Add calls the hook has yet to make
  event,          \* the record
  missing,        \* history: fields refused or cut by the builder
  counted,        \* events in TraceStats
  printed,        \* events in the output
  clock,          \* the system time, see ClockAt
  stamp           \* GetSystemTime100nsFast, see NoStamp

clockVars == <<clock, stamp>>
codecVars == <<stage, hook, todo, event, missing, counted, printed, clockVars>>

Smaller(m, n) == IF m < n THEN m ELSE n

-----------------------------------------------------------------------------
(* What the hooks record: one Add call per field, in order.                *)

Call(add, type, size, name) == [add |-> add, type |-> type, size |-> size, name |-> name]
Pointer(name) == Call("fixed", "pointer", 8, name)
UInt32(name) == Call("fixed", "uint32", 4, name)
Status(name) == Call("fixed", "status", 4, name)
Preview(name) == Call("preview", "bytes", 0, name)
Unicode(name) == Call("unicode", "wide", 0, name)
ObjectPath(name) == Call("objectpath", "wide", 0, name)

FileTransfer ==
  <<Pointer("file_handle"), Pointer("event"), Pointer("apc_routine"),
    Pointer("apc_context"), Pointer("io_status_block"), Pointer("buffer_address"),
    UInt32("length"), Pointer("byte_offset"), Pointer("key")>>

NtCreateFile ==
  <<UInt32("desired_access"), ObjectPath("path"), Pointer("io_status_block"),
    Pointer("allocation_size"), UInt32("file_attributes"),
    UInt32("share_access"), UInt32("create_disposition"),
    UInt32("create_options"), Pointer("ea_buffer"), UInt32("ea_length"),
    Pointer("file_handle"), Status("result")>>
NtOpenFile ==
  <<UInt32("desired_access"), ObjectPath("path"), Pointer("io_status_block"),
    UInt32("share_access"), UInt32("open_options"), Pointer("file_handle"),
    Status("result")>>
NtOpenKey ==
  <<UInt32("desired_access"), ObjectPath("path"), Pointer("key_handle"),
    Status("result")>>
\* ok is NT_SUCCESS of the result. A read has a preview only when it succeeded.
NtReadFile(ok) ==
  FileTransfer \o (IF ok THEN <<Preview("buffer")>> ELSE <<>>)
    \o <<Status("result")>>
NtWriteFile == FileTransfer \o <<Preview("buffer"), Status("result")>>
NtQueryValueKey ==
  <<Pointer("key_handle"), Unicode("value_name"), UInt32("info_class"),
    UInt32("length"), Status("result")>>
NtSetValueKey ==
  <<Pointer("key_handle"), Unicode("value_name"), UInt32("type"),
    UInt32("data_size"), Preview("data"), Status("result")>>
NtClose == <<Pointer("handle"), Status("result")>>
BCryptOpenAlgorithmProvider ==
  <<Pointer("algorithm"), Pointer("algorithm_id"), Pointer("implementation"),
    UInt32("flags"), Status("result")>>

HookNames == {"NtCreateFile", "NtOpenFile", "NtOpenKey", "NtReadFile", "NtWriteFile",
              "NtQueryValueKey", "NtSetValueKey", "NtClose",
              "BCryptOpenAlgorithmProvider"}

HookCalls(api, ok) ==
  CASE api = "NtCreateFile" -> NtCreateFile
    [] api = "NtOpenFile" -> NtOpenFile
    [] api = "NtOpenKey" -> NtOpenKey
    [] api = "NtReadFile" -> NtReadFile(ok)
    [] api = "NtWriteFile" -> NtWriteFile
    [] api = "NtQueryValueKey" -> NtQueryValueKey
    [] api = "NtSetValueKey" -> NtSetValueKey
    [] api = "NtClose" -> NtClose
    [] api = "BCryptOpenAlgorithmProvider" -> BCryptOpenAlgorithmProvider

ModuleOfHook(api) ==
  IF api = "BCryptOpenAlgorithmProvider" THEN "bcrypt.dll" ELSE "ntdll.dll"

-----------------------------------------------------------------------------
(* The builder in the target.                                              *)

Identifier(name) == Len(name) \in 1 .. NameBytes /\ name \notin BadNames
FieldBytes(field) == FieldHeaderBytes + Len(field.name) + field.size

\* The Add functions a hook can call: each but the last four passes on a value
\* of its own type, and a wide string is a number of two-byte characters.
FixedValues ==
  {<<"pointer", 8>>, <<"uint32", 4>>, <<"uint64", 8>>, <<"int32", 4>>,
   <<"int64", 8>>, <<"status", 4>>, <<"boolean", 1>>}
IsAddCall(call) ==
  /\ call.size \in Nat
  /\ \/ call.add = "fixed" /\ <<call.type, call.size>> \in FixedValues
     \/ call.add = "wide" /\ call.type = "wide" /\ call.size % 2 = 0
     \/ call.add \in {"unicode", "objectpath"} /\ call.type = "wide"
     \/ call.add = "preview" /\ call.type = "bytes"

\* Names in the code are literals: those of the repository's hooks and the
\* field the tracker adds are well formed.
ASSUME NamesAssumption ==
  /\ Hooks \subseteq HookNames
  /\ \A api \in Hooks : Identifier(ModuleOfHook(api)) /\ Identifier(api)
  /\ Identifier("path")
  /\ Identifier("F")
  /\ \A call \in CustomCalls : IsAddCall(call)
FieldNames(e) == {e.fields[i].name : i \in DOMAIN e.fields}

Blank == [magic |-> FALSE, module |-> "", api |-> "", size |-> 0,
          flags |-> {}, fields |-> <<>>]

InitializeTraceEvent(module, api) ==
  IF Identifier(module) /\ Identifier(api)
  THEN [Blank EXCEPT !.magic = TRUE, !.module = module, !.api = api,
                     !.size = HeaderBytes + Len(module) + Len(api)]
  ELSE [Blank EXCEPT !.flags = {"field_error"}]

\* Seeded fault: the header of the field is left out of what it needs.
AppendValueOnly(e, field) ==
  IF ~e.magic \/ ~Identifier(field.name) \/ field.name \in FieldNames(e)
  THEN [e EXCEPT !.flags = @ \cup {"field_error"}]
  ELSE IF e.size + Len(field.name) + field.size > EventBytes
  THEN [e EXCEPT !.flags = @ \cup {"truncated"}]
  ELSE [e EXCEPT !.size = @ + FieldBytes(field), !.fields = Append(@, field)]

\* Seeded fault: a field that does not fit is left out without a flag.
AppendQuietly(e, field) ==
  IF ~e.magic \/ ~Identifier(field.name) \/ field.name \in FieldNames(e)
  THEN [e EXCEPT !.flags = @ \cup {"field_error"}]
  ELSE IF e.size + FieldBytes(field) > EventBytes THEN e
  ELSE [e EXCEPT !.size = @ + FieldBytes(field), !.fields = Append(@, field)]

AppendTraceField(e, field) ==
  IF ~e.magic \/ ~Identifier(field.name) \/ field.name \in FieldNames(e)
  THEN [e EXCEPT !.flags = @ \cup {"field_error"}]
  ELSE IF e.size + FieldBytes(field) > EventBytes
  THEN [e EXCEPT !.flags = @ \cup {"truncated"}]
  ELSE [e EXCEPT !.size = @ + FieldBytes(field), !.fields = Append(@, field)]

Field(call, size) ==
  [type |-> call.type, name |-> call.name, size |-> size,
   requested |-> 0, captured |-> 0]

Even(length) == length - (length % 2)

\* What the target's memory can give an Add call: wanted is the length of the
\* string or buffer, got what the guarded read returned of it, root whether
\* there is a RootDirectory. A string is read whole or not at all
\* (SafeReadSelf), a preview stops at an unmapped page (CaptureTraceBuffer).
Inputs(call) ==
  LET strings == [root : {FALSE}, wanted : StringLengths, got : {0}]
      whole(in) == [in EXCEPT !.got = Smaller(Even(in.wanted), StringBytes)]
      paths == strings \cup {whole(in) : in \in strings}
      partly(n) == {m \in {0, 1, n - 1, n} : m \in 0 .. n}
  IN CASE call.add \in {"fixed", "wide"} ->
            {[root |-> FALSE, wanted |-> call.size, got |-> call.size]}
       [] call.add = "unicode" -> paths
       [] call.add = "objectpath" -> paths \cup {[in EXCEPT !.root = TRUE] : in \in paths}
       [] call.add = "preview" ->
            UNION {[root : {FALSE}, wanted : {n}, got : partly(Smaller(n, BufferBytes))] :
                     n \in BufferLengths}

\* AddTraceWideString: cut at the limit.
AddTraceWideString(e, call, bytes) ==
  IF bytes > StringBytes
  THEN AppendTraceField([e EXCEPT !.flags = @ \cup {"truncated"}],
                        Field(call, StringBytes))
  ELSE AppendTraceField(e, Field(call, bytes))

\* AddTraceUnicodeString: the length made even and cut at the limit, an empty
\* field when the structure or its buffer could not be read.
AddTraceUnicodeString(e, call, in) ==
  AddTraceWideString(IF Even(in.wanted) > StringBytes
                     THEN [e EXCEPT !.flags = @ \cup {"truncated"}] ELSE e,
                     call, in.got)

\* Seeded fault: the directory is recorded under the name of the path.
AddRootAsPath(e, call, in) ==
  AddTraceUnicodeString(
    IF in.root THEN AppendTraceField(e, Field(Pointer(call.name), 8)) ELSE e,
    call, in)

\* AddTraceObjectPath: root_directory first, when there is one.
AddTraceObjectPath(e, call, in) ==
  AddTraceUnicodeString(
    IF in.root THEN AppendTraceField(e, Field(Pointer("root_directory"), 8)) ELSE e,
    call, in)

AddTraceBufferPreview(e, call, in) ==
  AppendTraceField(e, [Field(call, BytesHeaderBytes + in.got)
                         EXCEPT !.requested = in.wanted, !.captured = in.got])

Added(e, call, in) ==
  CASE call.add = "fixed" -> AppendTraceField(e, Field(call, in.got))
    [] call.add = "wide" -> AddTraceWideString(e, call, in.got)
    [] call.add = "unicode" -> AddTraceUnicodeString(e, call, in)
    [] call.add = "objectpath" -> AddTraceObjectPath(e, call, in)
    [] call.add = "preview" -> AddTraceBufferPreview(e, call, in)

-----------------------------------------------------------------------------
(* The time of the event. The kernel publishes the system time in three     *)
(* words of KUSER_SHARED_DATA, one after the other, while it is read.       *)

\* now is the time being published, writes the words of it yet to be written.
ClockAt(t) ==
  [now |-> t, writes |-> 0, high2 |-> t \div LowParts, low |-> t % LowParts,
   high1 |-> t \div LowParts]

\* at is the next word to be read; begun (history) is the time
\* published completely when the first word was read.
NoStamp == [at |-> "high1", high |-> 0, low |-> 0, begun |-> 0, time |-> 0]

\* External: the kernel writes high2Time, lowPart and high1Time in this order.
KernelTick ==
  /\ stage = "stamping"
  /\ \/ /\ clock.writes = 0 /\ clock.now < MaxTicks
        /\ clock' = [clock EXCEPT !.now = @ + 1, !.writes = 2,
                                  !.high2 = (clock.now + 1) \div LowParts]
     \/ /\ clock.writes = 2
        /\ clock' = [clock EXCEPT !.writes = 1, !.low = clock.now % LowParts]
     \/ /\ clock.writes = 1
        /\ clock' = [clock EXCEPT !.writes = 0, !.high1 = clock.now \div LowParts]
  /\ UNCHANGED <<stage, hook, todo, event, missing, counted, printed, stamp>>

ReadHigh1Time ==
  /\ stage = "stamping" /\ stamp.at = "high1"
  /\ stamp' = [stamp EXCEPT !.at = "low", !.high = clock.high1,
                            !.begun = IF clock.writes = 0 THEN clock.now
                                      ELSE clock.now - 1]
  /\ UNCHANGED <<stage, hook, todo, event, missing, counted, printed, clock>>

ReadLowPart ==
  /\ stage = "stamping" /\ stamp.at = "low"
  /\ stamp' = [stamp EXCEPT !.at = "high2", !.low = clock.low]
  /\ UNCHANGED <<stage, hook, todo, event, missing, counted, printed, clock>>

\* Seeded fault: the two high parts are not compared.
HighPartsUnread == TRUE

HighPartsAgree == stamp.high = clock.high2

\* The loop ends when the high parts agree. Then the hook goes on to its fields.
CompareHigh2Time ==
  /\ stage = "stamping" /\ stamp.at = "high2"
  /\ \/ /\ ~HighPartsAgree
        /\ stamp' = [stamp EXCEPT !.at = "high1"]
        /\ UNCHANGED stage
     \/ /\ HighPartsAgree
        /\ stamp' = [stamp EXCEPT !.at = "done",
                                  !.time = stamp.high * LowParts + stamp.low]
        /\ stage' = "stamped"
  /\ UNCHANGED <<hook, todo, event, missing, counted, printed, clock>>

CodecInit ==
  /\ stage = "idle"
  /\ hook = ""
  /\ todo = <<>>
  /\ event = Blank
  /\ missing = {}
  /\ counted = 0
  /\ printed = 0
  /\ clock = ClockAt(0)
  /\ stamp = NoStamp

\* The names are checked first; an event with bad ones has no time.
StartHook(api) ==
  /\ stage = "idle"
  /\ hook' = api
  /\ event' = InitializeTraceEvent(ModuleOfHook(api), api)
  /\ stage' = "stamping"
  /\ UNCHANGED <<todo, missing, counted, printed, clockVars>>

\* A hook of the user's own: names that are refused or not, any fields.
StartCustom ==
  /\ stage = "idle"
  /\ hook' = "custom"
  /\ \E module \in CustomModules : event' = InitializeTraceEvent(module, "F")
  /\ stage' = IF event'.magic THEN "stamping" ELSE "stamped"
  /\ missing' = IF event'.magic THEN {} ELSE {"header"}
  /\ UNCHANGED <<todo, counted, printed, clockVars>>

\* The hook's Add calls. The time is not read again.
BeginFields ==
  /\ stage = "stamped"
  /\ stage' = "building"
  /\ IF hook = "custom" THEN todo' \in BoundedSeq(CustomCalls, MaxCustom)
     ELSE \E ok \in BOOLEAN : todo' = HookCalls(hook, ok)
  /\ clock' = ClockAt(0) /\ stamp' = NoStamp
  /\ UNCHANGED <<hook, event, missing, counted, printed>>

\* A field is missing when it was not appended, or its string was cut.
AddField ==
  /\ stage = "building"
  /\ todo # <<>>
  /\ \E in \in Inputs(Head(todo)) :
       LET call == Head(todo)
           expected == Len(event.fields) + (IF in.root THEN 2 ELSE 1)
           cut == call.type = "wide" /\ Even(in.wanted) > StringBytes
       IN /\ event' = Added(event, call, in)
          /\ missing' = IF Len(event'.fields) < expected \/ cut
                        THEN missing \cup {call.name} ELSE missing
  /\ todo' = Tail(todo)
  /\ UNCHANGED <<stage, hook, counted, printed, clockVars>>

\* EmitTraceEvent takes any record with a sound header; the ring is configured.
EmitTraceEvent ==
  /\ stage = "building"
  /\ todo = <<>>
  /\ stage' = IF event.magic /\ event.size <= EventBytes
                 /\ event.size >= HeaderBytes + Len(event.module) + Len(event.api)
              THEN "emitted" ELSE "refused"
  /\ UNCHANGED <<hook, todo, event, missing, counted, printed, clockVars>>

-----------------------------------------------------------------------------
(* The controller.                                                         *)

HasExpectedValueSize(field) ==
  CASE field.type \in {"pointer", "uint64", "int64"} -> field.size = 8
    [] field.type \in {"uint32", "status", "int32"} -> field.size = 4
    [] field.type = "boolean" -> field.size = 1
    [] field.type = "bytes" -> /\ field.captured <= BufferBytes
                               /\ field.captured <= field.requested
                               /\ field.size = BytesHeaderBytes + field.captured
    [] field.type = "wide" -> field.size % 2 = 0 /\ field.size <= StringBytes

\* ParseTraceEvent: the cursor passes over the names and then over each field,
\* whose name is well formed and new and whose value has the size of its type;
\* it ends exactly at the end of the event.
IsValidTraceEvent(e) ==
  LET names == HeaderBytes + Len(e.module) + Len(e.api)
      cursor[i \in 0 .. Len(e.fields)] ==
        IF i = 0 THEN names ELSE cursor[i - 1] + FieldBytes(e.fields[i])
  IN /\ e.magic
     /\ e.size <= EventBytes
     /\ e.size >= names
     /\ Identifier(e.module) /\ Identifier(e.api)
     /\ \A i \in DOMAIN e.fields : /\ Identifier(e.fields[i].name)
                                   /\ HasExpectedValueSize(e.fields[i])
     /\ Cardinality(FieldNames(e)) = Len(e.fields)
     /\ cursor[Len(e.fields)] = e.size

\* queueEvent ignores an event that is not valid.
Receive ==
  /\ stage = "emitted"
  /\ stage' = IF IsValidTraceEvent(event) THEN "queued" ELSE "ignored"
  /\ UNCHANGED <<hook, todo, event, missing, counted, printed, clockVars>>

\* Seeded fault: a path is added to an event that has one.
AnnotateAgain(bytes) ==
  LET field == Field(Unicode("path"), Smaller(bytes, StringBytes))
  IN IF event.size + FieldBytes(field) > EventBytes THEN event
     ELSE [event EXCEPT !.size = @ + FieldBytes(field), !.fields = Append(@, field)]

\* Annotate and AppendWideString with a path of the given bytes: cut at the
\* limit, left out when there is no room, no flag either way.
Annotated(bytes) ==
  LET field == Field(Unicode("path"), Smaller(bytes, StringBytes))
  IN IF "path" \in FieldNames(event) \/ event.size + FieldBytes(field) > EventBytes
     THEN event
     ELSE [event EXCEPT !.size = @ + FieldBytes(field), !.fields = Append(@, field)]

HasHandle(e) ==
  \E i \in DOMAIN e.fields : /\ e.fields[i].type = "pointer"
                             /\ e.fields[i].name \in {"file_handle", "key_handle", "handle"}

\* WriterLoop: the tracker may know the path of the event's handle; then
\* RenderEvent counts the event and the renderer parses it again.
Write ==
  /\ stage = "queued"
  /\ \/ UNCHANGED event
     \/ HasHandle(event) /\ \E bytes \in PathLengths : event' = Annotated(bytes)
  /\ stage' = "written"
  /\ counted' = counted + 1
  /\ printed' = printed + (IF IsValidTraceEvent(event') THEN 1 ELSE 0)
  /\ UNCHANGED <<hook, todo, missing, clockVars>>

CodecNext ==
  \/ \E api \in Hooks : StartHook(api)
  \/ StartCustom
  \/ ReadHigh1Time \/ ReadLowPart \/ CompareHigh2Time \/ KernelTick
  \/ BeginFields
  \/ AddField
  \/ EmitTraceEvent
  \/ Receive
  \/ Write

CodecSpec == CodecInit /\ [][CodecNext]_codecVars

-----------------------------------------------------------------------------
(* The limits of trace_protocol.h against what the repository's hooks record. *)

\* The most bytes one Add call of the repository's hooks can take of a record.
MostBytes(call) ==
  LET value == CASE call.add = "fixed" -> call.size
                 [] call.add = "preview" -> BytesHeaderBytes + BufferBytes
                 [] call.add = "unicode" -> StringBytes
                 [] call.add = "objectpath" ->
                      FieldBytes(Field(Pointer("root_directory"), 8)) + StringBytes
  IN  FieldHeaderBytes + Len(call.name) + value

RecordBytes(calls) ==
  LET bytes[i \in 0 .. Len(calls)] ==
        IF i = 0 THEN 0 ELSE bytes[i - 1] + MostBytes(calls[i])
  IN  bytes[Len(calls)]

\* What the repository's hooks record, against the limits: the names are good, no
\* name comes twice, one object path brings its directory, and the sum of the
\* largest fields fits.
RoomForHooks ==
  /\ Identifier("root_directory")
  /\ \A api \in Hooks, ok \in BOOLEAN :
       LET calls == HookCalls(api, ok)
       IN  /\ \A i \in 1 .. Len(calls) :
                Identifier(calls[i].name) /\ calls[i].name # "root_directory"
           /\ \A i \in 1 .. Len(calls) : \A j \in 1 .. (i - 1) :
                /\ calls[i].name # calls[j].name
                /\ calls[i].add # "objectpath" \/ calls[j].add # "objectpath"
           /\ HeaderBytes + Len(ModuleOfHook(api)) + Len(api) + RecordBytes(calls)
                <= EventBytes

-----------------------------------------------------------------------------
(* Properties.                                                             *)

\* An event EmitTraceEvent accepts is never dropped on the way: queueEvent finds
\* it well formed, and what WriterLoop counts in the summary is in the output,
\* whatever sequence of Add calls built it and whatever path was appended.
NothingMalformed ==
  /\ stage # "ignored"
  /\ counted = printed

\* The flags of an emitted event are set exactly when its builder refused a field
\* or cut a string (AppendTraceField, AddTraceWideString). They say nothing of a
\* string that could not be read, and a path the tracker cuts sets none.
FlagsTellLoss ==
  stage # "idle" => (event.flags # {} <=> missing # {})

\* The record is large enough for each hook of the repository with every string
\* and buffer at its limit: no field is refused, so the status and the handle
\* HandlePathTracker relies on are there (it takes a missing status for success).
HookEventsComplete ==
  hook # "custom" /\ stage = "emitted" =>
    /\ "field_error" \notin event.flags
    /\ \E ok \in BOOLEAN : \A i \in DOMAIN HookCalls(hook, ok) :
         HookCalls(hook, ok)[i].name \in FieldNames(event)
    /\ "result" \in FieldNames(event)

\* The timestamp of an event is a time that was current while its words were
\* read, also when the low part wrapped in between (GetSystemTime100nsFast).
TimestampNotTorn ==
  stamp.at = "done" => stamp.time \in stamp.begun .. clock.now

\* Types; the size of a record is within its buffer at every moment.
CodecTypeOK ==
  /\ stage \in {"idle", "stamping", "stamped", "building", "emitted", "refused", "queued", "ignored", "written"}
  /\ event.size \in 0 .. EventBytes
  /\ event.flags \subseteq {"truncated", "field_error"}
  /\ counted \in 0 .. 1 /\ printed \in 0 .. counted
=============================================================================
