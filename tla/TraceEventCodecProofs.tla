----------------------- MODULE TraceEventCodecProofs -----------------------
(***************************************************************************)
(* Theorems about a record on its way from the hook to the output, for     *)
(* every size of the buffers, every sequence of Add calls and every input. *)
(*                                                                         *)
(* ClockInv follows the three words of the system time and what has been   *)
(* read of them. RecordInv says of the record after any number of Add      *)
(* calls what the validator will ask of it; that the validator's cursor    *)
(* ends where the builder's size says is an induction over the fields.     *)
(***************************************************************************)
EXTENDS TraceEventCodec, NumberLemmas, FiniteSetTheorems, SequenceTheorems, TLAPS

-----------------------------------------------------------------------------
(* The time of the event.                                                  *)

High(t) == t \div LowParts
Low(t) == t % LowParts

ClockRecord == [now : Nat, writes : {0, 1, 2}, high2 : Nat, low : Nat, high1 : Nat]
StampRecord == [at : {"high1", "low", "high2", "done"}, high : Nat, low : Nat,
                begun : Nat, time : Nat]

\* The last time all of whose words have been written.
Published(c) == IF c.writes = 0 THEN c.now ELSE c.now - 1

\* The words in the order the kernel writes them.
WordsOf(c) ==
  /\ c.writes # 0 => c.now # 0
  /\ c.high2 = High(c.now)
  /\ c.low = IF c.writes = 2 THEN Low(c.now - 1) ELSE Low(c.now)
  /\ c.high1 = High(Published(c))

\* What the loop of GetSystemTime100nsFast has read up to where it is.
WordsRead(s, c) ==
  /\ s.at \in {"low", "high2"} => s.begun <= Published(c) /\ s.high = High(s.begun)
  /\ s.at = "high2" => \E x \in s.begun .. c.now : s.low = Low(x)
  /\ s.at = "done" => s.time \in s.begun .. c.now

ClockInv ==
  /\ clock \in ClockRecord
  /\ stamp \in StampRecord
  /\ WordsOf(clock)
  /\ WordsRead(stamp, clock)

LEMMA PartsOfTime ==
  \A t \in Nat : High(t) \in Nat /\ Low(t) \in Nat /\ t = LowParts * High(t) + Low(t)
<1>1. LowParts \in Nat \ {0}
  BY CodecAssumption
<1>2. ASSUME NEW t \in Nat
      PROVE  High(t) \in Nat /\ Low(t) \in Nat /\ t = LowParts * High(t) + Low(t)
  <2>1. t % LowParts \in Nat
    BY <1>1, Parts
  <2> QED
    BY <1>1, <2>1, Parts DEF High, Low
<1> QED
  BY <1>2

\* Times with the same high part differ in their low parts only, so a time put
\* together from the high part of one and the low part of a later one is the later.
LEMMA SameHighPart ==
  ASSUME NEW first \in Nat, NEW last \in Nat, NEW x \in first .. last,
         High(first) = High(last)
  PROVE  High(first) * LowParts + Low(x) = x
<1>1. LowParts \in Nat \ {0} /\ x \in Nat
  BY CodecAssumption
<1>2. High(first) <= High(x) /\ High(x) <= High(last)
  BY <1>1, HighPartMonotonic DEF High
<1>3. High(x) = High(first)
  BY <1>1, <1>2, PartsOfTime
<1>4. x = LowParts * High(first) + Low(x) /\ High(first) \in Nat /\ Low(x) \in Nat
  BY <1>1, <1>3, PartsOfTime
<1>5. LowParts * High(first) = High(first) * LowParts
  BY <1>1, <1>4, SMT
<1> QED
  BY <1>4, <1>5

LEMMA ClockStarts == ClockAt(0) \in ClockRecord /\ WordsOf(ClockAt(0))
<1>1. 0 \div LowParts \in Nat /\ 0 % LowParts \in Nat
  BY PartsOfTime DEF High, Low
<1> QED
  BY <1>1 DEF ClockAt, ClockRecord, WordsOf, Published, High, Low

LEMMA StampStarts ==
  ASSUME NEW c
  PROVE  NoStamp \in StampRecord /\ WordsRead(NoStamp, c)
BY DEF NoStamp, StampRecord, WordsRead

\* A write of the kernel while the time is being read.
LEMMA TickKeeps ==
  ASSUME ClockInv, KernelTick
  PROVE  ClockInv'
<1> DEFINE now == clock.now
<1>1. now \in Nat /\ stamp' = stamp /\ clock \in ClockRecord /\ stamp \in StampRecord
  BY DEF ClockInv, ClockRecord, KernelTick
<1>2. /\ stamp.begun \in Nat /\ High(now) \in Nat /\ Low(now) \in Nat
      /\ High(now + 1) \in Nat
  BY <1>1, PartsOfTime DEF StampRecord
<1>3. CASE /\ clock.writes = 0
           /\ clock' = [clock EXCEPT !.now = @ + 1, !.writes = 2,
                                     !.high2 = (clock.now + 1) \div LowParts]
  <2>a. PICK h \in Nat, next \in Nat : h = High(now + 1) /\ next = now + 1
    BY <1>1, <1>2
  <2>b. clock' = [clock EXCEPT !.now = next, !.writes = 2, !.high2 = h]
    BY <1>3, <2>a DEF High
  <2>1. /\ clock' \in ClockRecord /\ clock'.now = now + 1 /\ clock'.writes = 2
        /\ clock'.high2 = High(now + 1) /\ clock'.low = clock.low
        /\ clock'.high1 = clock.high1
    <3>1. clock' \in ClockRecord
      BY <1>1, <2>a, <2>b DEF ClockRecord
    <3> QED
      BY <1>1, <2>a, <2>b, <3>1 DEF ClockRecord
  <2>2. WordsOf(clock')
    BY <1>1, <1>3, <2>1 DEF ClockInv, WordsOf, Published
  <2>3. WordsRead(stamp, clock')
    BY <1>1, <1>2, <1>3, <2>1 DEF ClockInv, WordsRead, Published, StampRecord
  <2> QED
    BY <1>1, <2>1, <2>2, <2>3 DEF ClockInv
<1>4. CASE /\ clock.writes = 2
           /\ clock' = [clock EXCEPT !.writes = 1, !.low = clock.now % LowParts]
  <2>a. PICK l \in Nat : l = Low(now)
    BY <1>2
  <2>b. clock' = [clock EXCEPT !.writes = 1, !.low = l]
    BY <1>4, <2>a DEF Low
  <2>1. /\ clock' \in ClockRecord /\ clock'.now = now /\ clock'.writes = 1
        /\ clock'.high2 = clock.high2 /\ clock'.low = Low(now)
        /\ clock'.high1 = clock.high1
    <3>1. clock' \in ClockRecord
      BY <1>1, <2>a, <2>b DEF ClockRecord
    <3> QED
      BY <1>1, <2>a, <2>b, <3>1 DEF ClockRecord
  <2>2. WordsOf(clock')
    BY <1>1, <1>4, <2>1 DEF ClockInv, WordsOf, Published
  <2>3. WordsRead(stamp, clock')
    BY <1>1, <1>2, <1>4, <2>1 DEF ClockInv, WordsRead, Published, StampRecord
  <2> QED
    BY <1>1, <2>1, <2>2, <2>3 DEF ClockInv
<1>5. CASE /\ clock.writes = 1
           /\ clock' = [clock EXCEPT !.writes = 0, !.high1 = clock.now \div LowParts]
  <2>a. PICK h \in Nat : h = High(now)
    BY <1>2
  <2>b. clock' = [clock EXCEPT !.writes = 0, !.high1 = h]
    BY <1>5, <2>a DEF High
  <2>1. /\ clock' \in ClockRecord /\ clock'.now = now /\ clock'.writes = 0
        /\ clock'.high2 = clock.high2 /\ clock'.low = clock.low
        /\ clock'.high1 = High(now)
    <3>1. clock' \in ClockRecord
      BY <1>1, <2>a, <2>b DEF ClockRecord
    <3> QED
      BY <1>1, <2>a, <2>b, <3>1 DEF ClockRecord
  <2>2. WordsOf(clock')
    BY <1>1, <1>5, <2>1 DEF ClockInv, WordsOf, Published
  <2>3. WordsRead(stamp, clock')
    BY <1>1, <1>2, <1>5, <2>1 DEF ClockInv, WordsRead, Published, StampRecord
  <2> QED
    BY <1>1, <2>1, <2>2, <2>3 DEF ClockInv
<1> QED
  BY <1>3, <1>4, <1>5 DEF KernelTick

LEMMA High1Keeps ==
  ASSUME ClockInv, ReadHigh1Time
  PROVE  ClockInv'
<1> DEFINE begun == IF clock.writes = 0 THEN clock.now ELSE clock.now - 1
<1>1. /\ clock' = clock /\ begun = Published(clock) /\ begun \in Nat
      /\ clock.high1 = High(begun) /\ clock.high1 \in Nat
  BY DEF ClockInv, ClockRecord, WordsOf, Published, ReadHigh1Time
<1>2. stamp' = [stamp EXCEPT !.at = "low", !.high = clock.high1, !.begun = begun]
  BY DEF ReadHigh1Time
<1> HIDE DEF begun
<1>3. /\ stamp' \in StampRecord /\ stamp'.at = "low" /\ stamp'.begun = begun
      /\ stamp'.high = clock.high1
  BY <1>1, <1>2 DEF ClockInv, StampRecord
<1>4. begun <= Published(clock) /\ Published(clock) \in Nat
  BY <1>1
<1>5. WordsRead(stamp', clock)
  BY <1>1, <1>3, <1>4 DEF WordsRead
<1> QED
  BY <1>1, <1>3, <1>5 DEF ClockInv

LEMMA LowKeeps ==
  ASSUME ClockInv, ReadLowPart
  PROVE  ClockInv'
<1> DEFINE x == IF clock.writes = 2 THEN clock.now - 1 ELSE clock.now
<1>1. /\ clock' = clock /\ clock.low \in Nat /\ clock.low = Low(x)
      /\ x \in Nat /\ Published(clock) <= x /\ x <= clock.now /\ clock.now \in Nat
      /\ Published(clock) \in Nat
  BY DEF ClockInv, ClockRecord, WordsOf, Published, ReadLowPart
<1>2. stamp' = [stamp EXCEPT !.at = "high2", !.low = clock.low] /\ stamp.at = "low"
  BY DEF ReadLowPart
<1> HIDE DEF x
<1>3. stamp.begun \in Nat /\ stamp.begun <= Published(clock) /\ stamp.high = High(stamp.begun)
  BY <1>2 DEF ClockInv, WordsRead, StampRecord
<1>4. stamp' \in StampRecord /\ stamp'.begun = stamp.begun /\ stamp'.high = stamp.high
      /\ stamp'.low = clock.low /\ stamp'.at = "high2"
  BY <1>1, <1>2 DEF ClockInv, StampRecord
<1>5. x \in stamp.begun .. clock.now
  BY <1>1, <1>3
<1>6. WordsRead(stamp', clock)
  BY <1>1, <1>3, <1>4, <1>5 DEF WordsRead
<1> QED
  BY <1>1, <1>4, <1>6 DEF ClockInv

LEMMA CompareKeeps ==
  ASSUME ClockInv, CompareHigh2Time
  PROVE  ClockInv'
<1>1. clock' = clock /\ stamp.at = "high2" /\ stamp \in StampRecord /\ clock.now \in Nat
  BY DEF CompareHigh2Time, ClockInv, ClockRecord
<1>2. CASE stamp' = [stamp EXCEPT !.at = "high1"]
  <2>1. stamp' \in StampRecord /\ stamp'.at = "high1"
    BY <1>1, <1>2 DEF StampRecord
  <2> QED
    BY <1>1, <2>1 DEF ClockInv, WordsRead
<1>3. CASE /\ HighPartsAgree
           /\ stamp' = [stamp EXCEPT !.at = "done",
                                     !.time = stamp.high * LowParts + stamp.low]
  <2>1. PICK x \in stamp.begun .. clock.now : stamp.low = Low(x)
    BY <1>1 DEF ClockInv, WordsRead
  <2>2. stamp.begun \in Nat /\ stamp.high = High(stamp.begun)
    BY <1>1 DEF ClockInv, WordsRead, StampRecord
  <2>3. High(stamp.begun) = High(clock.now)
    BY <1>3, <2>2 DEF ClockInv, WordsOf, HighPartsAgree
  <2>4. stamp.high * LowParts + stamp.low = x
    BY <1>1, <2>1, <2>2, <2>3, SameHighPart
  <2>5. /\ stamp' \in StampRecord /\ stamp'.at = "done"
        /\ stamp'.time = x /\ stamp'.begun = stamp.begun
    <3>1. stamp' = [stamp EXCEPT !.at = "done", !.time = x] /\ x \in Nat
      <4>1. x \in Nat
        BY <1>1, <2>1, <2>2
      <4> QED
        BY ONLY <1>3, <2>4, <4>1, Zenon
    <3> QED
      BY <1>1, <3>1 DEF StampRecord
  <2>6. WordsRead(stamp', clock)
    BY <2>5 DEF WordsRead
  <2> QED
    BY <1>1, <2>5, <2>6 DEF ClockInv
<1> QED
  BY <1>2, <1>3 DEF CompareHigh2Time

LEMMA ClockStep ==
  ASSUME ClockInv, [CodecNext]_codecVars
  PROVE  ClockInv'
<1>1. CASE UNCHANGED clockVars
  BY <1>1 DEF clockVars, ClockInv
<1>2. CASE BeginFields
  BY <1>2, ClockStarts, StampStarts DEF BeginFields, ClockInv
<1> QED
  BY <1>1, <1>2, TickKeeps, High1Keeps, LowKeeps, CompareKeeps
  DEF CodecNext, codecVars, StartHook, StartCustom, AddField, EmitTraceEvent,
      Receive, Write

\* The three words of the time and what has been read of them belong together.
THEOREM ClockInvariant == CodecSpec => []ClockInv
<1>1. CodecInit => ClockInv
  BY ClockStarts, StampStarts DEF CodecInit, ClockInv
<1>2. ClockInv /\ [CodecNext]_codecVars => ClockInv'
  BY ClockStep
<1> QED
  BY <1>1, <1>2, PTL DEF CodecSpec

\* However often the kernel writes the time while it is read, and wherever the
\* low part wraps, the timestamp of an event is a time that was current between
\* the first read and the last (GetSystemTime100nsFast).
THEOREM TimestampWhole == CodecSpec => []TimestampNotTorn
<1>1. ClockInv => TimestampNotTorn
  BY DEF ClockInv, WordsRead, TimestampNotTorn
<1> QED
  BY <1>1, ClockInvariant, PTL

-----------------------------------------------------------------------------
(* The record. A built record is void, when its names were refused, or one *)
(* the validator will accept.                                              *)

FieldTypes == {"pointer", "uint32", "uint64", "int32", "int64", "status",
               "boolean", "bytes", "wide"}

\* The names the hooks of the repository give their fields, and the one field
\* the tracker adds.
HookFieldNames ==
  {"desired_access", "root_directory", "path", "io_status_block",
   "allocation_size", "file_attributes", "share_access", "create_disposition",
   "create_options", "ea_buffer", "ea_length", "open_options", "file_handle",
   "key_handle", "handle", "event", "apc_routine", "apc_context",
   "buffer_address", "length", "byte_offset", "key", "buffer", "value_name",
   "info_class", "type", "data_size", "data", "algorithm", "algorithm_id",
   "implementation", "flags", "result"}
NamesInUse == {call.name : call \in CustomCalls} \cup HookFieldNames

FieldRecord ==
  [type : FieldTypes, name : NamesInUse, size : Nat, requested : Nat, captured : Nat]
ModuleNames == CustomModules \cup {"", "ntdll.dll", "bcrypt.dll"}
ApiNames == Hooks \cup {"", "F"}
EventRecord ==
  [magic : BOOLEAN, module : ModuleNames, api : ApiNames, size : Nat,
   flags : SUBSET {"truncated", "field_error"}, fields : Seq(FieldRecord)]

NamesEnd(e) == HeaderBytes + Len(e.module) + Len(e.api)

\* Where the cursor of ParseTraceEvent is after each field.
Passes(ends, e) ==
  /\ ends[0] = NamesEnd(e)
  /\ \A i \in 1 .. Len(e.fields) : ends[i] = ends[i - 1] + FieldBytes(e.fields[i])

WellFormed(e) ==
  /\ e.magic
  /\ e.size <= EventBytes
  /\ NamesEnd(e) <= e.size
  /\ Identifier(e.module) /\ Identifier(e.api)
  /\ \A i \in 1 .. Len(e.fields) : /\ Identifier(e.fields[i].name)
                                   /\ HasExpectedValueSize(e.fields[i])
  /\ IsFiniteSet(FieldNames(e)) /\ Cardinality(FieldNames(e)) = Len(e.fields)
  /\ \E ends \in [0 .. Len(e.fields) -> Nat] :
       Passes(ends, e) /\ ends[Len(e.fields)] = e.size

Void(e) == ~e.magic /\ e.size = 0 /\ e.fields = <<>> /\ e.flags # {}

Built(e) == e \in EventRecord /\ (WellFormed(e) \/ Void(e))

\* r is e after Add calls for n fields, of which one may have been cut.
Grown(e, r, n, cut) ==
  /\ Len(r.fields) \in Len(e.fields) .. (Len(e.fields) + n)
  /\ r.flags # {} <=> e.flags # {} \/ Len(r.fields) < Len(e.fields) + n \/ cut

LEMMA LengthsAreNumbers ==
  /\ EventBytes \in Nat /\ NameBytes \in Nat /\ BufferBytes \in Nat /\ StringBytes \in Nat
  /\ \A name : Identifier(name) => Len(name) \in 1 .. NameBytes
BY CodecAssumption DEF Identifier

\* The cursor of IsValidTraceEvent, by itself.
CursorOf(e) ==
  CHOOSE c : c = [i \in 0 .. Len(e.fields) |->
                    IF i = 0 THEN NamesEnd(e) ELSE c[i - 1] + FieldBytes(e.fields[i])]

\* The cursor passes over the fields as the builder counted them: whatever
\* their number, it ends at the size in the header.
LEMMA CursorEndsAtSize ==
  ASSUME NEW e \in EventRecord, NEW ends \in [0 .. Len(e.fields) -> Nat], Passes(ends, e)
  PROVE  CursorOf(e)[Len(e.fields)] = ends[Len(e.fields)]
<1> DEFINE n == Len(e.fields)
           Solves(c) == c = [i \in 0 .. n |->
                    IF i = 0 THEN NamesEnd(e) ELSE c[i - 1] + FieldBytes(e.fields[i])]
           cursor == CursorOf(e)
           Wrong == {i \in 0 .. n : cursor[i] # ends[i]}
<1>1. n \in Nat
  BY LenProperties DEF EventRecord
<1>2. Solves(ends)
  <2>1. \A i \in 0 .. n : i = 0 \/ i \in 1 .. n
    BY <1>1
  <2>2. \A i \in 0 .. n :
          ends[i] = IF i = 0 THEN NamesEnd(e) ELSE ends[i - 1] + FieldBytes(e.fields[i])
    BY <2>1 DEF Passes
  <2> QED
    BY <2>2
<1>3. Solves(cursor)
  BY <1>2 DEF CursorOf
<1>4. ASSUME NEW i \in 0 .. n
      PROVE  cursor[i] = IF i = 0 THEN NamesEnd(e)
                         ELSE cursor[i - 1] + FieldBytes(e.fields[i])
  <2> HIDE DEF cursor
  <2> QED
    BY <1>3
<1> HIDE DEF cursor, Solves, n
<1>5. ASSUME Wrong # {} PROVE FALSE
  <2>1. Wrong \subseteq Nat
    BY <1>1
  <2>2. PICK m \in Wrong : \A i \in Wrong : m <= i
    BY <1>5, <2>1, LeastNumber
  <2>3. m # 0
    BY <1>1, <1>4, <2>2 DEF Passes
  <2>4. m \in 1 .. n /\ m - 1 \in 0 .. n /\ m - 1 \notin Wrong
    BY <1>1, <2>2, <2>3
  <2>5. cursor[m - 1] = ends[m - 1]
    BY <2>4
  <2>6. ends[m] = ends[m - 1] + FieldBytes(e.fields[m])
    BY <2>4 DEF Passes, n
  <2> QED
    BY <1>4, <2>2, <2>3, <2>4, <2>5, <2>6
<1>6. n \in 0 .. n
  BY <1>1
<1> QED
  BY <1>5, <1>6 DEF n, cursor

\* What the builder makes, ParseTraceEvent takes.
LEMMA WellFormedIsValid ==
  ASSUME NEW e \in EventRecord, WellFormed(e)
  PROVE  IsValidTraceEvent(e)
<1>1. CursorOf(e)[Len(e.fields)] = e.size
  BY CursorEndsAtSize DEF WellFormed
<1>2. DOMAIN e.fields = 1 .. Len(e.fields)
  BY LenProperties DEF EventRecord
<1>3. /\ e.magic /\ e.size <= EventBytes /\ e.size >= NamesEnd(e)
      /\ Identifier(e.module) /\ Identifier(e.api)
      /\ \A i \in DOMAIN e.fields : /\ Identifier(e.fields[i].name)
                                    /\ HasExpectedValueSize(e.fields[i])
      /\ Cardinality(FieldNames(e)) = Len(e.fields)
  <2>1. e.size \in Nat /\ NamesEnd(e) \in Nat
    BY LengthsAreNumbers DEF EventRecord, WellFormed, NamesEnd, HeaderBytes
  <2> QED
    BY <1>2, <2>1 DEF WellFormed
<1> QED
  BY <1>1, <1>3 DEF IsValidTraceEvent, CursorOf, NamesEnd

\* A field that is well formed, new and fits goes behind the others.
LEMMA FieldFits ==
  ASSUME NEW e \in EventRecord, WellFormed(e), NEW f \in FieldRecord,
         HasExpectedValueSize(f), Identifier(f.name), f.name \notin FieldNames(e),
         e.size + FieldBytes(f) <= EventBytes,
         NEW r, r = [e EXCEPT !.size = @ + FieldBytes(f), !.fields = Append(@, f)]
  PROVE  /\ r \in EventRecord /\ WellFormed(r)
         /\ Len(r.fields) = Len(e.fields) + 1 /\ r.flags = e.flags
<1> DEFINE n == Len(e.fields)
<1>1. FieldBytes(f) \in Nat /\ e.size \in Nat /\ n \in Nat
  BY LengthsAreNumbers, LenProperties DEF FieldRecord, EventRecord, FieldBytes, FieldHeaderBytes
<1>2. PICK size \in Nat, fields \in Seq(FieldRecord) :
        size = e.size + FieldBytes(f) /\ fields = Append(e.fields, f)
  <2>1. e.fields \in Seq(FieldRecord) /\ e.size + FieldBytes(f) \in Nat
    BY <1>1 DEF EventRecord
  <2>2. Append(e.fields, f) \in Seq(FieldRecord)
    BY <2>1, AppendProperties
  <2> QED
    BY <2>1, <2>2
<1>3. r = [e EXCEPT !.size = size, !.fields = fields]
  BY <1>2
<1>4. /\ r \in EventRecord /\ r.magic = e.magic /\ r.module = e.module /\ r.api = e.api
      /\ r.flags = e.flags /\ r.size = size /\ r.fields = fields
  BY <1>3 DEF EventRecord
<1>5. /\ Len(fields) = n + 1 /\ fields[n + 1] = f
      /\ \A i \in 1 .. n : fields[i] = e.fields[i]
  BY <1>2, AppendProperties DEF EventRecord
<1>6. \A i \in 1 .. (n + 1) : i \in 1 .. n \/ i = n + 1
  BY <1>1
<1>7. \A i \in 1 .. Len(fields) : Identifier(fields[i].name) /\ HasExpectedValueSize(fields[i])
  BY <1>5, <1>6 DEF WellFormed
<1>8. FieldNames(r) = FieldNames(e) \cup {f.name}
  <2>1. DOMAIN e.fields = 1 .. n /\ DOMAIN fields = 1 .. (n + 1)
    BY <1>2, <1>5, LenProperties DEF EventRecord
  <2>2. n + 1 \in 1 .. (n + 1) /\ \A i \in 1 .. n : i \in 1 .. (n + 1)
    BY <1>1
  <2> QED
    BY <1>4, <1>5, <1>6, <2>1, <2>2 DEF FieldNames
<1>9. IsFiniteSet(FieldNames(r)) /\ Cardinality(FieldNames(r)) = n + 1
  <2>1. IsFiniteSet(FieldNames(e)) /\ Cardinality(FieldNames(e)) = n
    BY DEF WellFormed
  <2>2. /\ IsFiniteSet(FieldNames(e) \cup {f.name})
        /\ Cardinality(FieldNames(e) \cup {f.name}) = Cardinality(FieldNames(e)) + 1
    BY <2>1, FS_AddElement
  <2> QED
    BY <1>8, <2>1, <2>2
<1>10. \E ends \in [0 .. Len(fields) -> Nat] : Passes(ends, r) /\ ends[Len(fields)] = size
  <2>1. PICK old \in [0 .. n -> Nat] : Passes(old, e) /\ old[n] = e.size
    BY DEF WellFormed
  <2> DEFINE ends == [i \in 0 .. (n + 1) |-> IF i = n + 1 THEN size ELSE old[i]]
  <2>2. ends \in [0 .. (n + 1) -> Nat]
    <3>1. \A i \in 0 .. (n + 1) : i = n + 1 \/ i \in 0 .. n
      BY <1>1
    <3> QED
      BY <1>2, <2>1, <3>1
  <2>3. /\ ends[n + 1] = size /\ \A i \in 0 .. n : ends[i] = old[i]
    BY <1>1
  <2> HIDE DEF ends
  <2>4. ends[0] = NamesEnd(r)
    BY <1>1, <1>4, <2>1, <2>3 DEF Passes, NamesEnd
  <2>5. ASSUME NEW i \in 1 .. (n + 1)
        PROVE  ends[i] = ends[i - 1] + FieldBytes(fields[i])
    <3>1. CASE i = n + 1
      <4>1. i - 1 = n /\ n \in 0 .. n
        BY <1>1, <3>1
      <4> QED
        BY <1>2, <1>5, <2>1, <2>3, <3>1, <4>1
    <3>2. CASE i \in 1 .. n
      <4>1. i \in 0 .. n /\ i - 1 \in 0 .. n
        BY <1>1, <3>2
      <4> QED
        BY <1>5, <2>1, <2>3, <3>2, <4>1 DEF Passes
    <3> QED
      BY <1>6, <3>1, <3>2
  <2> QED
    BY <1>4, <1>5, <2>2, <2>3, <2>4, <2>5 DEF Passes
<1>11. NamesEnd(r) = NamesEnd(e) /\ NamesEnd(e) <= size
  <2>1. NamesEnd(e) \in Nat
    <3>1. Len(e.module) \in Nat /\ Len(e.api) \in Nat
      BY LengthsAreNumbers DEF WellFormed
    <3>2. PICK m \in Nat, a \in Nat : Len(e.module) = m /\ Len(e.api) = a
      BY <3>1
    <3>3. NamesEnd(e) = 32 + m + a
      BY <3>2 DEF NamesEnd, HeaderBytes
    <3> QED
      BY <3>3
  <2> QED
    BY <1>1, <1>2, <1>4, <2>1 DEF WellFormed, NamesEnd
<1> QED
  BY <1>2, <1>4, <1>5, <1>7, <1>9, <1>10, <1>11 DEF WellFormed

\* A flag changes neither kind of record.
LEMMA FlagKeeps ==
  ASSUME NEW e, Built(e), NEW flag \in {"truncated", "field_error"},
         NEW r, r = [e EXCEPT !.flags = @ \cup {flag}]
  PROVE  Built(r) /\ r.fields = e.fields /\ r.flags # {}
<1>1. PICK flags \in SUBSET {"truncated", "field_error"} : flags = e.flags \cup {flag}
  BY DEF Built, EventRecord
<1>2. r = [e EXCEPT !.flags = flags]
  BY <1>1
<1>3. /\ r \in EventRecord /\ r.magic = e.magic /\ r.module = e.module /\ r.api = e.api
      /\ r.flags = flags /\ r.size = e.size /\ r.fields = e.fields
  BY <1>2 DEF Built, EventRecord
<1>4. WellFormed(e) => WellFormed(r)
  BY <1>3 DEF WellFormed, FieldNames, NamesEnd, Passes
<1>5. Void(e) => Void(r)
  BY <1>1, <1>3 DEF Void
<1> QED
  BY <1>1, <1>3, <1>4, <1>5 DEF Built

LEMMA AppendKeeps ==
  ASSUME NEW e, Built(e), NEW f \in FieldRecord, HasExpectedValueSize(f)
  PROVE  /\ Built(AppendTraceField(e, f))
         /\ Grown(e, AppendTraceField(e, f), 1, FALSE)
<1> DEFINE r == AppendTraceField(e, f)
<1>1. e \in EventRecord /\ Len(e.fields) \in Nat
  BY LenProperties DEF Built, EventRecord
<1>2. CASE ~e.magic \/ ~Identifier(f.name) \/ f.name \in FieldNames(e)
  <2>1. r = [e EXCEPT !.flags = @ \cup {"field_error"}]
    BY <1>2 DEF AppendTraceField
  <2>2. Built(r) /\ r.fields = e.fields /\ r.flags # {}
    BY <2>1, FlagKeeps
  <2> QED
    BY <1>1, <2>2 DEF Grown
<1>3. CASE /\ ~(~e.magic \/ ~Identifier(f.name) \/ f.name \in FieldNames(e))
           /\ e.size + FieldBytes(f) > EventBytes
  <2>1. r = [e EXCEPT !.flags = @ \cup {"truncated"}]
    BY <1>3 DEF AppendTraceField
  <2>2. Built(r) /\ r.fields = e.fields /\ r.flags # {}
    BY <2>1, FlagKeeps
  <2> QED
    BY <1>1, <2>2 DEF Grown
<1>4. CASE /\ ~(~e.magic \/ ~Identifier(f.name) \/ f.name \in FieldNames(e))
           /\ ~(e.size + FieldBytes(f) > EventBytes)
  <2>1. r = [e EXCEPT !.size = @ + FieldBytes(f), !.fields = Append(@, f)]
    BY <1>4 DEF AppendTraceField
  <2>2. FieldBytes(f) \in Nat /\ e.size \in Nat /\ EventBytes \in Nat
    BY <1>1, <1>4, LengthsAreNumbers
    DEF EventRecord, FieldRecord, FieldBytes, FieldHeaderBytes
  <2>3. WellFormed(e) /\ e.size + FieldBytes(f) <= EventBytes
    BY <1>4, <2>2 DEF Built, Void
  <2>4. /\ r \in EventRecord /\ WellFormed(r)
        /\ Len(r.fields) = Len(e.fields) + 1 /\ r.flags = e.flags
    BY <1>1, <1>4, <2>1, <2>3, FieldFits
  <2> QED
    BY <1>1, <2>4 DEF Built, Grown
<1> QED
  BY <1>2, <1>3, <1>4

\* The validator's sizes are those of the Add functions.
LEMMA FixedValuesExpected ==
  ASSUME NEW f, <<f.type, f.size>> \in FixedValues
  PROVE  HasExpectedValueSize(f)
<1>1. CASE f.type = "pointer" /\ f.size = 8
  BY <1>1 DEF HasExpectedValueSize
<1>2. CASE f.type \in {"uint64", "int64"} /\ f.size = 8
  BY <1>2 DEF HasExpectedValueSize
<1>3. CASE f.type = "boolean" /\ f.size = 1
  BY <1>3 DEF HasExpectedValueSize
<1>. QED BY <1>1, <1>2, <1>3 DEF FixedValues, HasExpectedValueSize

LEMMA WideExpected ==
  ASSUME NEW f, f.type = "wide", f.size % 2 = 0, f.size <= StringBytes
  PROVE  HasExpectedValueSize(f)
BY DEF HasExpectedValueSize

LEMMA PreviewExpected ==
  ASSUME NEW f, f.type = "bytes", f.captured <= BufferBytes,
         f.captured <= f.requested, f.size = BytesHeaderBytes + f.captured
  PROVE  HasExpectedValueSize(f)
BY DEF HasExpectedValueSize

LEMMA FixedTypes ==
  ASSUME NEW type, NEW size, <<type, size>> \in FixedValues
  PROVE  type \in FieldTypes /\ type # "wide"
<1>1. type \in {"pointer", "uint32", "uint64", "int32", "int64", "status", "boolean"}
  BY DEF FixedValues
<1>. QED BY <1>1 DEF FieldTypes

\* What an Add call may get, by the kind of call.
LEMMA InputKinds ==
  ASSUME NEW call, IsAddCall(call), NEW in \in Inputs(call)
  PROVE  /\ in.root \in BOOLEAN /\ in.wanted \in Nat /\ in.got \in Nat
         /\ in.root => call.add = "objectpath"
         /\ call.add \in {"fixed", "wide"} => in.wanted = call.size /\ in.got = call.size
         /\ call.add \in {"unicode", "objectpath"} => in.got % 2 = 0 /\ in.got <= StringBytes
         /\ call.add = "preview" => in.got <= BufferBytes /\ in.got <= in.wanted
<1> DEFINE Given(i) == /\ i.root \in BOOLEAN /\ i.wanted \in Nat /\ i.got \in Nat
                       /\ i.got % 2 = 0 /\ i.got <= StringBytes
           strings == [root : {FALSE}, wanted : StringLengths, got : {0}]
           whole(i) == [i EXCEPT !.got = Smaller(Even(i.wanted), StringBytes)]
           paths == strings \cup {whole(i) : i \in strings}
<1>1. /\ StringBytes \in Nat /\ BufferBytes \in Nat /\ StringBytes % 2 = 0
      /\ StringLengths \subseteq Nat /\ BufferLengths \subseteq Nat
  BY CodecAssumption
<1>2. ASSUME NEW n \in Nat
      PROVE  Even(n) \in Nat /\ Even(n) % 2 = 0
  BY SMT DEF Even
<1>3. ASSUME NEW i \in strings
      PROVE  Given(i) /\ i.root = FALSE /\ Given(whole(i)) /\ whole(i).root = FALSE
  <2>1. i.wanted \in Nat /\ i.root = FALSE /\ i.got = 0
    BY <1>1
  <2>2. PICK g \in Nat : g = Smaller(Even(i.wanted), StringBytes)
    BY <1>1, <1>2, <2>1 DEF Smaller
  <2>3. g % 2 = 0 /\ g <= StringBytes
    <3>1. PICK m \in Nat : m = Even(i.wanted) /\ m % 2 = 0
      BY <1>2, <2>1
    <3>2. g = IF m < StringBytes THEN m ELSE StringBytes
      BY <2>2, <3>1 DEF Smaller
    <3>. QED BY <1>1, <3>1, <3>2
  <2>4. whole(i) = [i EXCEPT !.got = g]
    BY <2>2
  <2>5. whole(i).root = FALSE /\ whole(i).wanted = i.wanted /\ whole(i).got = g
    BY <2>4
  <2>6. Given(i)
    <3>1. 0 % 2 = 0 /\ 0 <= StringBytes
      BY <1>1
    <3>2. i.root \in BOOLEAN
      BY <2>1
    <3>3. i.got % 2 = 0 /\ i.got <= StringBytes /\ i.got \in Nat
      BY ONLY <2>1, <3>1
    <3>. QED BY <2>1, <3>2, <3>3
  <2>7. Given(whole(i))
    <3> HIDE DEF whole
    <3>. QED BY <2>1, <2>2, <2>3, <2>5
  <2>. QED BY <2>1, <2>5, <2>6, <2>7
<1>4. ASSUME NEW i \in paths PROVE Given(i) /\ i.root = FALSE
  BY <1>3, <1>4
<1>5. CASE call.add \in {"fixed", "wide"}
  <2>1. in = [root |-> FALSE, wanted |-> call.size, got |-> call.size]
    BY <1>5 DEF Inputs
  <2>. QED BY <1>5, <2>1 DEF IsAddCall
<1>6. CASE call.add = "unicode"
  <2>1. in \in paths
    BY <1>6 DEF Inputs
  <2>. QED BY <1>4, <1>6, <2>1
<1>7. CASE call.add = "objectpath"
  <2>1. in \in paths \/ \E i \in paths : in = [i EXCEPT !.root = TRUE]
    BY <1>7 DEF Inputs
  <2>2. CASE in \in paths
    BY <1>4, <1>7, <2>2
  <2>3. ASSUME NEW i \in paths, in = [i EXCEPT !.root = TRUE]
        PROVE  Given(in)
    <3>1. Given(i) /\ i \in [root : BOOLEAN, wanted : Nat, got : Nat]
      <4>1. Given(i)
        BY <1>4
      <4>2. i \in strings => i \in [root : BOOLEAN, wanted : Nat, got : Nat]
        <5>1. i \in strings => /\ i = [root |-> i.root, wanted |-> i.wanted, got |-> i.got]
                               /\ i.root = FALSE /\ i.wanted \in Nat /\ i.got = 0
          BY <1>1
        <5>2. i \in strings => i.root \in BOOLEAN /\ i.got \in Nat
          <6>1. i \in strings => i.root \in BOOLEAN
            BY <5>1
          <6>2. i \in strings => i.got \in Nat
            BY <5>1
          <6>. QED BY <6>1, <6>2
        <5>. QED BY <5>1, <5>2, Zenon
      <4>3. ASSUME NEW j \in strings
            PROVE  whole(j) \in [root : BOOLEAN, wanted : Nat, got : Nat]
        <5>1. j \in [root : BOOLEAN, wanted : Nat, got : Nat] /\ whole(j).got \in Nat
          BY <1>1, <1>3
        <5>2. PICK g \in Nat : g = Smaller(Even(j.wanted), StringBytes)
          BY <1>1, <1>2, <5>1 DEF Smaller
        <5>. QED BY <5>1, <5>2
      <4>. QED BY <4>1, <4>2, <4>3
    <3>2. in.root = TRUE /\ in.wanted = i.wanted /\ in.got = i.got
      BY <2>3, <3>1
    <3>. QED BY <3>1, <3>2
  <2>. QED BY <1>7, <2>1, <2>2, <2>3
<1>8. CASE call.add = "preview"
  <2>1. PICK n \in BufferLengths :
          in \in [root : {FALSE}, wanted : {n},
                  got : {m \in {0, 1, Smaller(n, BufferBytes) - 1, Smaller(n, BufferBytes)} :
                           m \in 0 .. Smaller(n, BufferBytes)}]
    BY <1>8 DEF Inputs
  <2>2. Smaller(n, BufferBytes) \in Nat /\ Smaller(n, BufferBytes) <= n
        /\ Smaller(n, BufferBytes) <= BufferBytes /\ n \in Nat
    BY <1>1 DEF Smaller
  <2>3. in.root = FALSE /\ in.wanted = n /\ in.got \in 0 .. Smaller(n, BufferBytes)
    BY <2>1
  <2>4. in.got \in Nat /\ in.got <= BufferBytes /\ in.got <= n
    BY <1>1, <2>2, <2>3
  <2>. QED BY <1>8, <2>2, <2>3, <2>4
<1>. QED BY <1>5, <1>6, <1>7, <1>8 DEF IsAddCall

LEMMA FieldTyped ==
  ASSUME NEW call, call.type \in FieldTypes, call.name \in NamesInUse, NEW size \in Nat
  PROVE  /\ Field(call, size) \in FieldRecord
         /\ Field(call, size).type = call.type /\ Field(call, size).size = size
BY DEF Field, FieldRecord

\* A wide string: the field is cut at the limit, and the flag says so.
LEMMA WideKeeps ==
  ASSUME NEW e, Built(e), NEW call, call.type = "wide", call.name \in NamesInUse,
         NEW bytes \in Nat, bytes % 2 = 0
  PROVE  /\ Built(AddTraceWideString(e, call, bytes))
         /\ Grown(e, AddTraceWideString(e, call, bytes), 1, bytes > StringBytes)
<1>1. StringBytes \in Nat /\ StringBytes % 2 = 0
  BY CodecAssumption
<1>2. ASSUME NEW n \in Nat, n % 2 = 0, n <= StringBytes
      PROVE  Field(call, n) \in FieldRecord /\ HasExpectedValueSize(Field(call, n))
  <2>1. Field(call, n) \in FieldRecord /\ Field(call, n).type = "wide" /\ Field(call, n).size = n
    BY FieldTyped DEF FieldTypes
  <2>. QED BY <1>2, <2>1, WideExpected
<1>3. CASE bytes > StringBytes
  <2> DEFINE flagged == [e EXCEPT !.flags = @ \cup {"truncated"}]
             r == AppendTraceField(flagged, Field(call, StringBytes))
  <2>1. Built(flagged) /\ flagged.fields = e.fields /\ flagged.flags # {}
    BY FlagKeeps
  <2> HIDE DEF flagged
  <2>2. Built(r) /\ Grown(flagged, r, 1, FALSE)
    <3>1. Field(call, StringBytes) \in FieldRecord /\ HasExpectedValueSize(Field(call, StringBytes))
      BY <1>1, <1>2
    <3>. QED BY <2>1, <3>1, AppendKeeps
  <2>3. r = AddTraceWideString(e, call, bytes)
    BY <1>3 DEF AddTraceWideString, flagged
  <2> HIDE DEF r
  <2>. QED BY <1>3, <2>1, <2>2, <2>3 DEF Grown
<1>4. CASE ~(bytes > StringBytes)
  <2>1. AddTraceWideString(e, call, bytes) = AppendTraceField(e, Field(call, bytes))
    BY <1>4 DEF AddTraceWideString
  <2>2. bytes <= StringBytes
    BY <1>1, <1>4
  <2>3. Field(call, bytes) \in FieldRecord /\ HasExpectedValueSize(Field(call, bytes))
    BY <1>2, <2>2
  <2>4. Built(AppendTraceField(e, Field(call, bytes)))
        /\ Grown(e, AppendTraceField(e, Field(call, bytes)), 1, FALSE)
    BY <2>3, AppendKeeps
  <2>. QED BY <1>4, <2>1, <2>4 DEF Grown
<1>. QED BY <1>3, <1>4

LEMMA UnicodeKeeps ==
  ASSUME NEW e, Built(e), NEW call, call.type = "wide", call.name \in NamesInUse,
         NEW in, in.got \in Nat, in.got % 2 = 0, in.got <= StringBytes
  PROVE  /\ Built(AddTraceUnicodeString(e, call, in))
         /\ Grown(e, AddTraceUnicodeString(e, call, in), 1, Even(in.wanted) > StringBytes)
<1> DEFINE cut == Even(in.wanted) > StringBytes
           start == IF cut THEN [e EXCEPT !.flags = @ \cup {"truncated"}] ELSE e
           r == AddTraceWideString(start, call, in.got)
<1>1. Built(start) /\ start.fields = e.fields /\ (cut => start.flags # {})
      /\ (~cut => start.flags = e.flags)
  BY FlagKeeps
<1>2. r = AddTraceUnicodeString(e, call, in)
  BY DEF AddTraceUnicodeString
<1> HIDE DEF cut, start
<1>3. ~(in.got > StringBytes)
  BY CodecAssumption
<1>4. Built(r) /\ Grown(start, r, 1, in.got > StringBytes)
  BY <1>1, WideKeeps
<1> HIDE DEF r
<1>5. Grown(e, r, 1, cut)
  BY <1>1, <1>3, <1>4 DEF Grown
<1>. QED BY <1>2, <1>4, <1>5 DEF cut

\* Every Add call keeps the record sound, and flags what it lost.
LEMMA AddedKeeps ==
  ASSUME NEW e, Built(e), NEW call, IsAddCall(call), call.name \in NamesInUse,
         NEW in \in Inputs(call)
  PROVE  /\ Built(Added(e, call, in))
         /\ Grown(e, Added(e, call, in), IF in.root THEN 2 ELSE 1,
                  call.type = "wide" /\ Even(in.wanted) > StringBytes)
<1>1. /\ in.root \in BOOLEAN /\ in.wanted \in Nat /\ in.got \in Nat
      /\ in.root => call.add = "objectpath"
      /\ call.add \in {"fixed", "wide"} => in.wanted = call.size /\ in.got = call.size
      /\ call.add \in {"unicode", "objectpath"} => in.got % 2 = 0 /\ in.got <= StringBytes
      /\ call.add = "preview" => in.got <= BufferBytes /\ in.got <= in.wanted
  BY InputKinds
<1>2. CASE call.add = "fixed"
  <2>0. /\ <<call.type, call.size>> \in FixedValues /\ call.name \in NamesInUse
        /\ call.size \in Nat /\ in.got = call.size /\ ~in.root
    BY <1>1, <1>2 DEF IsAddCall
  <2>a. call.type \in FieldTypes /\ call.type # "wide"
    BY <2>0, FixedTypes
  <2>b. /\ Field(call, in.got) \in FieldRecord
        /\ Field(call, in.got).type = call.type /\ Field(call, in.got).size = call.size
    BY <2>0, <2>a, FieldTyped
  <2>1. Field(call, in.got) \in FieldRecord /\ HasExpectedValueSize(Field(call, in.got))
    BY <2>0, <2>b, FixedValuesExpected
  <2>2. Built(AppendTraceField(e, Field(call, in.got)))
        /\ Grown(e, AppendTraceField(e, Field(call, in.got)), 1, FALSE)
    BY <2>1, AppendKeeps
  <2>3. call.type # "wide" /\ ~in.root
    BY <2>0, <2>a
  <2>. QED BY <1>2, <2>2, <2>3 DEF Added, Grown
<1>3. CASE call.add = "wide"
  <2>1. call.type = "wide" /\ call.name \in NamesInUse /\ in.got % 2 = 0 /\ ~in.root
        /\ in.wanted = in.got
    BY <1>1, <1>3 DEF IsAddCall
  <2>2. Even(in.wanted) = in.got
    BY <1>1, <2>1 DEF Even
  <2>3. Built(AddTraceWideString(e, call, in.got))
        /\ Grown(e, AddTraceWideString(e, call, in.got), 1, in.got > StringBytes)
    BY <1>1, <2>1, WideKeeps
  <2>. QED BY <1>3, <2>1, <2>2, <2>3 DEF Added, Grown
<1>4. CASE call.add = "unicode"
  <2>1. call.type = "wide" /\ call.name \in NamesInUse /\ ~in.root
    BY <1>1, <1>4 DEF IsAddCall
  <2>2. Built(AddTraceUnicodeString(e, call, in))
        /\ Grown(e, AddTraceUnicodeString(e, call, in), 1, Even(in.wanted) > StringBytes)
    BY <1>1, <1>4, <2>1, UnicodeKeeps
  <2>. QED BY <1>4, <2>1, <2>2 DEF Added, Grown
<1>5. CASE call.add = "objectpath"
  <2> DEFINE root == Field(Pointer("root_directory"), 8)
             start == IF in.root THEN AppendTraceField(e, root) ELSE e
             r == AddTraceUnicodeString(start, call, in)
             cut == Even(in.wanted) > StringBytes
  <2>1. call.type = "wide" /\ call.name \in NamesInUse
    BY <1>5 DEF IsAddCall
  <2>2. root \in FieldRecord /\ HasExpectedValueSize(root)
    <3>1. root = [type |-> "pointer", name |-> "root_directory", size |-> 8,
                  requested |-> 0, captured |-> 0]
      BY DEF Field, Pointer, Call
    <3>2. root \in FieldRecord
      BY <3>1 DEF FieldRecord, FieldTypes, NamesInUse, HookFieldNames
    <3>3. root.type = "pointer" /\ root.size = 8
      BY <3>1
    <3> HIDE DEF root
    <3>4. HasExpectedValueSize(root)
      BY <3>3 DEF HasExpectedValueSize
    <3>. QED BY <3>2, <3>4
  <2> HIDE DEF root
  <2>3. Len(e.fields) \in Nat
    BY LenProperties DEF Built, EventRecord
  <2>4. Built(start) /\ Grown(e, start, IF in.root THEN 1 ELSE 0, FALSE)
    <3>1. CASE in.root
      BY <2>2, <3>1, AppendKeeps
    <3>2. CASE ~in.root
      BY <2>3, <3>2 DEF Grown
    <3>. QED BY <3>1, <3>2
  <2> HIDE DEF start
  <2>5. Built(r) /\ Grown(start, r, 1, cut)
    BY <1>1, <1>5, <2>1, <2>4, UnicodeKeeps
  <2>6. r = Added(e, call, in)
    BY <1>5 DEF Added, AddTraceObjectPath, start, root
  <2> HIDE DEF r, cut
  <2>7. Grown(e, r, IF in.root THEN 2 ELSE 1, cut)
    <3>1. CASE in.root
      <4>1. Grown(e, start, 1, FALSE)
        BY <2>4, <3>1
      <4>2. Grown(e, r, 2, cut)
        BY <2>3, <2>5, <4>1, SMTT(30) DEF Grown
      <4>. QED BY <3>1, <4>2
    <3>2. CASE ~in.root
      <4>1. Grown(e, start, 0, FALSE)
        BY <2>4, <3>2
      <4>2. Grown(e, r, 1, cut)
        BY <2>3, <2>5, <4>1, SMTT(30) DEF Grown
      <4>. QED BY <3>2, <4>2
    <3>. QED BY <3>1, <3>2
  <2>. QED BY <2>1, <2>5, <2>6, <2>7 DEF cut
<1>6. CASE call.add = "preview"
  <2> DEFINE f == [Field(call, BytesHeaderBytes + in.got)
                     EXCEPT !.requested = in.wanted, !.captured = in.got]
  <2>1. call.type = "bytes" /\ call.name \in NamesInUse /\ ~in.root
    BY <1>1, <1>6 DEF IsAddCall
  <2>2. PICK n \in Nat, m \in Nat, w \in Nat : n = 12 + m /\ m = in.got /\ w = in.wanted
    <3>1. in.got \in Nat /\ in.wanted \in Nat /\ 12 + in.got \in Nat
      BY <1>1
    <3>. QED BY <3>1
  <2>3. f = [type |-> "bytes", name |-> call.name, size |-> n, requested |-> w, captured |-> m]
    <3>1. f = [[type |-> "bytes", name |-> call.name, size |-> n, requested |-> 0, captured |-> 0]
                 EXCEPT !.requested = w, !.captured = m]
      BY <2>1, <2>2 DEF Field, BytesHeaderBytes
    <3> HIDE DEF f
    <3>. QED BY <3>1
  <2>4. f \in FieldRecord /\ HasExpectedValueSize(f)
    <3> HIDE DEF f
    <3>1. f \in FieldRecord
      BY <2>1, <2>2, <2>3 DEF FieldRecord, FieldTypes
    <3>2. f.type = "bytes" /\ f.captured = m /\ f.requested = w /\ f.size = 12 + m
      BY <2>2, <2>3
    <3>3. m <= BufferBytes /\ m <= w
      BY <1>1, <1>6, <2>2
    <3>. QED BY <3>1, <3>2, <3>3, PreviewExpected DEF BytesHeaderBytes
  <2>5. Added(e, call, in) = AppendTraceField(e, f)
    BY <1>6 DEF Added, AddTraceBufferPreview
  <2> HIDE DEF f
  <2>6. Built(AppendTraceField(e, f)) /\ Grown(e, AppendTraceField(e, f), 1, FALSE)
    BY <2>4, AppendKeeps
  <2>. QED BY <2>1, <2>5, <2>6 DEF Grown
<1>. QED BY <1>2, <1>3, <1>4, <1>5, <1>6 DEF IsAddCall

-----------------------------------------------------------------------------
(* The Add calls a hook can make.                                          *)

CallsFor(name) == {Pointer(name), UInt32(name), Status(name), Preview(name),
                   Unicode(name), ObjectPath(name)}
HookAddCalls == UNION {CallsFor(name) : name \in HookFieldNames}
AddCalls == CustomCalls \cup HookAddCalls

LEMMA AddCallsTyped ==
  ASSUME NEW call \in AddCalls
  PROVE  IsAddCall(call) /\ call.name \in NamesInUse
<1>1. CASE call \in CustomCalls
  BY <1>1, NamesAssumption DEF NamesInUse
<1>2. ASSUME NEW name \in HookFieldNames, call \in CallsFor(name)
      PROVE  IsAddCall(call) /\ call.name \in NamesInUse
  <2>1. name \in NamesInUse
    BY DEF NamesInUse
  <2>2. CASE call = Pointer(name)
    <3>1. call.add = "fixed" /\ call.type = "pointer" /\ call.size = 8 /\ call.name = name
      BY <2>2 DEF Pointer, Call
    <3>. QED BY <2>1, <3>1 DEF IsAddCall, FixedValues
  <2>3. CASE call = UInt32(name)
    <3>1. call.add = "fixed" /\ call.type = "uint32" /\ call.size = 4 /\ call.name = name
      BY <2>3 DEF UInt32, Call
    <3>. QED BY <2>1, <3>1 DEF IsAddCall, FixedValues
  <2>4. CASE call = Status(name)
    <3>1. call.add = "fixed" /\ call.type = "status" /\ call.size = 4 /\ call.name = name
      BY <2>4 DEF Status, Call
    <3>. QED BY <2>1, <3>1 DEF IsAddCall, FixedValues
  <2>5. CASE call = Preview(name)
    <3>1. call.add = "preview" /\ call.type = "bytes" /\ call.size = 0 /\ call.name = name
      BY <2>5 DEF Preview, Call
    <3>. QED BY <2>1, <3>1 DEF IsAddCall
  <2>6. CASE call = Unicode(name)
    <3>1. call.add = "unicode" /\ call.type = "wide" /\ call.size = 0 /\ call.name = name
      BY <2>6 DEF Unicode, Call
    <3>. QED BY <2>1, <3>1 DEF IsAddCall
  <2>7. CASE call = ObjectPath(name)
    <3>1. call.add = "objectpath" /\ call.type = "wide" /\ call.size = 0 /\ call.name = name
      BY <2>7 DEF ObjectPath, Call
    <3>. QED BY <2>1, <3>1 DEF IsAddCall
  <2>. QED BY <1>2, <2>2, <2>3, <2>4, <2>5, <2>6, <2>7 DEF CallsFor
<1>. QED BY <1>1, <1>2 DEF AddCalls, HookAddCalls

LEMMA HookCallsAreAddCalls ==
  ASSUME NEW api \in HookNames, NEW ok \in BOOLEAN
  PROVE  HookCalls(api, ok) \in Seq(HookAddCalls)
<1>1. ASSUME NEW name \in HookFieldNames
      PROVE  /\ Pointer(name) \in HookAddCalls /\ UInt32(name) \in HookAddCalls
             /\ Status(name) \in HookAddCalls /\ Preview(name) \in HookAddCalls
             /\ Unicode(name) \in HookAddCalls /\ ObjectPath(name) \in HookAddCalls
  BY DEF HookAddCalls, CallsFor
<1> HIDE DEF HookAddCalls
<1>2. FileTransfer \in Seq(HookAddCalls)
  BY <1>1 DEF FileTransfer, HookFieldNames
<1>3. NtCreateFile \in Seq(HookAddCalls)
  BY <1>1 DEF NtCreateFile, HookFieldNames
<1>4. NtOpenFile \in Seq(HookAddCalls)
  BY <1>1 DEF NtOpenFile, HookFieldNames
<1>5. NtOpenKey \in Seq(HookAddCalls)
  BY <1>1 DEF NtOpenKey, HookFieldNames
<1>6. NtReadFile(ok) \in Seq(HookAddCalls)
  <2>1. /\ <<Preview("buffer")>> \in Seq(HookAddCalls) /\ <<>> \in Seq(HookAddCalls)
        /\ <<Status("result")>> \in Seq(HookAddCalls)
    BY <1>1 DEF HookFieldNames
  <2>. QED BY <1>2, <2>1, ConcatProperties DEF NtReadFile
<1>7. NtWriteFile \in Seq(HookAddCalls)
  <2>1. <<Preview("buffer"), Status("result")>> \in Seq(HookAddCalls)
    BY <1>1 DEF HookFieldNames
  <2>. QED BY <1>2, <2>1, ConcatProperties DEF NtWriteFile
<1>8. NtQueryValueKey \in Seq(HookAddCalls)
  BY <1>1 DEF NtQueryValueKey, HookFieldNames
<1>9. NtSetValueKey \in Seq(HookAddCalls)
  BY <1>1 DEF NtSetValueKey, HookFieldNames
<1>10. NtClose \in Seq(HookAddCalls)
  BY <1>1 DEF NtClose, HookFieldNames
<1>11. BCryptOpenAlgorithmProvider \in Seq(HookAddCalls)
  BY <1>1 DEF BCryptOpenAlgorithmProvider, HookFieldNames
<1>. QED BY <1>3, <1>4, <1>5, <1>6, <1>7, <1>8, <1>9, <1>10, <1>11 DEF HookCalls, HookNames

LEMMA CustomCallsAreAddCalls == BoundedSeq(CustomCalls, MaxCustom) \subseteq Seq(AddCalls)
<1>1. MaxCustom \in Nat
  BY CodecAssumption
<1>2. ASSUME NEW m \in 0 .. MaxCustom, NEW s \in [1 .. m -> CustomCalls]
      PROVE  s \in Seq(AddCalls)
  <2>1. m \in Nat /\ s \in [1 .. m -> AddCalls]
    BY <1>1 DEF AddCalls
  <2>. QED BY <2>1, IsASeq
<1>. QED BY <1>2 DEF BoundedSeq, SeqOf

-----------------------------------------------------------------------------
(* The way of a record.                                                    *)

Stages == {"idle", "stamping", "stamped", "building", "emitted", "refused", "queued",
           "ignored", "written"}

\* A record that is under way is built, its flags tell whether something is
\* missing, and one that was emitted is well formed.
RecordInv ==
  /\ stage \in Stages \ {"ignored"}
  /\ stage = "idle" => event = Blank /\ missing = {}
  /\ stage # "idle" => /\ Built(event)
                       /\ event.flags # {} <=> missing # {}
                       /\ hook \in Hooks \cup {"custom"}
  /\ stage \in {"emitted", "queued", "written"} => WellFormed(event)
  /\ IF stage = "written" THEN counted = 1 /\ printed = 1
                          ELSE counted = 0 /\ printed = 0
  /\ todo \in Seq(AddCalls)

\* The record with nothing in it; SMT has no empty string.
LEMMA BlankRecord ==
  \E empty : /\ empty \in ModuleNames /\ empty \in ApiNames
             /\ Blank = [magic |-> FALSE, module |-> empty, api |-> empty, size |-> 0,
                         flags |-> {}, fields |-> <<>>]
BY Zenon DEF Blank, ModuleNames, ApiNames

LEMMA InitializeBuilds ==
  ASSUME NEW module \in ModuleNames, NEW api \in ApiNames,
         NEW e, e = InitializeTraceEvent(module, api)
  PROVE  /\ Built(e)
         /\ e.flags = {} <=> (Identifier(module) /\ Identifier(api))
         /\ e.magic <=> (Identifier(module) /\ Identifier(api))
<1>1. CASE Identifier(module) /\ Identifier(api)
  <2>1. PICK m \in 1 .. NameBytes, a \in 1 .. NameBytes : m = Len(module) /\ a = Len(api)
    BY <1>1, LengthsAreNumbers
  <2>2. PICK size \in Nat : size = HeaderBytes + m + a /\ size <= EventBytes
    <3>1. NameBytes \in Nat /\ EventBytes \in Nat /\ HeaderBytes = 32
          /\ 32 + 2 * NameBytes <= EventBytes
      BY CodecAssumption DEF HeaderBytes
    <3>2. HeaderBytes + m + a \in Nat /\ HeaderBytes + m + a <= EventBytes
      BY <3>1
    <3>. QED BY <3>2
  <2>3. e = [magic |-> TRUE, module |-> module, api |-> api, size |-> size,
             flags |-> {}, fields |-> <<>>]
    BY <1>1, <2>1, <2>2 DEF InitializeTraceEvent, Blank
  <2>4. e \in EventRecord
    BY <2>3, EmptySeq DEF EventRecord
  <2>5. /\ e.magic /\ e.module = module /\ e.api = api /\ e.size = size
        /\ e.flags = {} /\ e.fields = <<>> /\ Len(e.fields) = 0
    BY <2>3
  <2>6. NamesEnd(e) = size
    BY <2>1, <2>2, <2>5 DEF NamesEnd
  <2>7. FieldNames(e) = {} /\ IsFiniteSet(FieldNames(e)) /\ Cardinality(FieldNames(e)) = 0
    <3>1. FieldNames(e) = {}
      BY <2>5 DEF FieldNames
    <3>. QED BY <3>1, FS_EmptySet
  <2>8. \E ends \in [0 .. Len(e.fields) -> Nat] :
          Passes(ends, e) /\ ends[Len(e.fields)] = e.size
    <3> DEFINE ends == [i \in 0 .. 0 |-> size]
    <3>1. ends \in [0 .. 0 -> Nat] /\ ends[0] = size
      BY <2>2
    <3> HIDE DEF ends
    <3>2. \A i \in 1 .. 0 : FALSE
      OBVIOUS
    <3>. QED BY <2>5, <2>6, <3>1, <3>2 DEF Passes
  <2>9. \A i \in 1 .. Len(e.fields) : FALSE
    BY <2>5
  <2>10. WellFormed(e)
    BY <1>1, <2>2, <2>5, <2>6, <2>7, <2>8, <2>9 DEF WellFormed
  <2>. QED BY <1>1, <2>4, <2>5, <2>10 DEF Built
<1>2. CASE ~(Identifier(module) /\ Identifier(api))
  <2>1. PICK empty : /\ empty \in ModuleNames /\ empty \in ApiNames
                     /\ Blank = [magic |-> FALSE, module |-> empty, api |-> empty,
                                 size |-> 0, flags |-> {}, fields |-> <<>>]
    BY BlankRecord
  <2>2. e = [magic |-> FALSE, module |-> empty, api |-> empty, size |-> 0,
             flags |-> {"field_error"}, fields |-> <<>>]
    BY <1>2, <2>1 DEF InitializeTraceEvent
  <2>3. empty \in ModuleNames /\ empty \in ApiNames
    BY <2>1
  <2>4. e \in EventRecord
    BY <2>2, <2>3, EmptySeq DEF EventRecord
  <2>5. Void(e)
    BY <2>2 DEF Void
  <2>. QED BY <1>2, <2>2, <2>4, <2>5 DEF Built
<1>. QED BY <1>1, <1>2

\* The hook's names are good, so its record is never void.
LEMMA StartHookKeeps ==
  ASSUME RecordInv, NEW api \in Hooks, StartHook(api)
  PROVE  RecordInv'
<1>1. Identifier(ModuleOfHook(api)) /\ Identifier(api)
  BY NamesAssumption
<1>2. ModuleOfHook(api) \in ModuleNames /\ api \in ApiNames
  BY DEF ModuleOfHook, ModuleNames, ApiNames
<1>3. event' = InitializeTraceEvent(ModuleOfHook(api), api)
  BY DEF StartHook
<1>4. Built(event') /\ event'.flags = {}
  BY <1>1, <1>2, <1>3, InitializeBuilds
<1>. QED BY <1>4 DEF StartHook, RecordInv, Stages

LEMMA StartCustomKeeps ==
  ASSUME RecordInv, StartCustom
  PROVE  RecordInv'
<1>1. PICK module \in CustomModules : event' = InitializeTraceEvent(module, "F")
  BY DEF StartCustom
<1>2. module \in ModuleNames /\ "F" \in ApiNames
  BY DEF ModuleNames, ApiNames
<1>3. Built(event') /\ (event'.flags = {} <=> event'.magic)
  BY <1>1, <1>2, InitializeBuilds
<1>4. event'.flags # {} <=> missing' # {}
  BY <1>3 DEF StartCustom
<1>5. stage' \in {"stamping", "stamped"} /\ hook' = "custom" /\ stage = "idle"
      /\ UNCHANGED <<todo, counted, printed>>
  BY DEF StartCustom
<1>. QED BY <1>3, <1>4, <1>5 DEF RecordInv, Stages

LEMMA BeginFieldsKeeps ==
  ASSUME RecordInv, BeginFields
  PROVE  RecordInv'
<1>1. todo' \in Seq(AddCalls)
  <2>1. CASE hook = "custom"
    BY <2>1, CustomCallsAreAddCalls DEF BeginFields
  <2>2. CASE hook # "custom"
    <3>1. hook \in HookNames
      BY <2>2, NamesAssumption DEF RecordInv, BeginFields
    <3>2. PICK ok \in BOOLEAN : todo' = HookCalls(hook, ok)
      BY <2>2 DEF BeginFields
    <3>3. Seq(HookAddCalls) \subseteq Seq(AddCalls)
      BY SeqMonotonic DEF AddCalls
    <3>. QED BY <3>1, <3>2, <3>3, HookCallsAreAddCalls
  <2>. QED BY <2>1, <2>2
<1>. QED BY <1>1 DEF RecordInv, BeginFields, Stages

LEMMA AddFieldKeeps ==
  ASSUME RecordInv, AddField
  PROVE  RecordInv'
<1>1. Head(todo) \in AddCalls /\ todo' \in Seq(AddCalls)
  BY HeadTailProperties DEF RecordInv, AddField
<1>2. Built(event) /\ Len(event.fields) \in Nat
  BY LenProperties DEF RecordInv, AddField, Built, EventRecord
<1>3. PICK call \in AddCalls : \E in \in Inputs(call) :
        /\ event' = Added(event, call, in)
        /\ missing' = IF \/ Len(event'.fields) < Len(event.fields) + (IF in.root THEN 2 ELSE 1)
                         \/ call.type = "wide" /\ Even(in.wanted) > StringBytes
                      THEN missing \cup {call.name} ELSE missing
  BY <1>1 DEF AddField
<1>3a. PICK in \in Inputs(call) :
        /\ event' = Added(event, call, in)
        /\ missing' = IF \/ Len(event'.fields) < Len(event.fields) + (IF in.root THEN 2 ELSE 1)
                         \/ call.type = "wide" /\ Even(in.wanted) > StringBytes
                      THEN missing \cup {call.name} ELSE missing
  BY <1>3
<1>4. IsAddCall(call) /\ call.name \in NamesInUse
  BY AddCallsTyped
<1> DEFINE n == IF in.root THEN 2 ELSE 1
           cut == call.type = "wide" /\ Even(in.wanted) > StringBytes
<1>5. Built(event') /\ Grown(event, event', n, cut)
  BY <1>2, <1>3a, <1>4, AddedKeeps
<1>6. missing' # {} <=> missing # {} \/ Len(event'.fields) < Len(event.fields) + n \/ cut
  <2> HIDE DEF cut
  <2>. QED BY <1>3a DEF cut
<1> HIDE DEF n, cut
<1>7. event'.flags # {} <=> missing' # {}
  BY <1>5, <1>6 DEF Grown, RecordInv, AddField
<1>. QED BY <1>1, <1>5, <1>7 DEF RecordInv, AddField, Stages

\* A void record is refused by the test of its magic number.
LEMMA EmitKeeps ==
  ASSUME RecordInv, EmitTraceEvent
  PROVE  RecordInv'
<1>1. stage' = "emitted" => WellFormed(event)
  BY DEF RecordInv, EmitTraceEvent, Built, Void
<1>. QED BY <1>1 DEF RecordInv, EmitTraceEvent, Stages

LEMMA ReceiveKeeps ==
  ASSUME RecordInv, Receive
  PROVE  RecordInv'
<1>1. event \in EventRecord /\ WellFormed(event)
  BY DEF RecordInv, Receive, Built
<1>2. stage' = "queued"
  BY <1>1, WellFormedIsValid DEF Receive
<1>. QED BY <1>2 DEF RecordInv, Receive, Stages

\* The tracker's path goes behind the fields only where it fits and is new.
LEMMA WriteKeeps ==
  ASSUME RecordInv, Write
  PROVE  RecordInv'
<1>1. event \in EventRecord /\ WellFormed(event) /\ stage = "queued"
  BY DEF RecordInv, Write, Built
<1>2. event' \in EventRecord /\ WellFormed(event') /\ event'.flags = event.flags
  <2>1. CASE event' = event
    BY <1>1, <2>1
  <2>2. ASSUME NEW bytes \in PathLengths, event' = Annotated(bytes), event' # event
        PROVE  event' \in EventRecord /\ WellFormed(event') /\ event'.flags = event.flags
    <3> DEFINE f == Field(Unicode("path"), Smaller(bytes, StringBytes))
    <3>1. bytes \in Nat /\ bytes % 2 = 0 /\ StringBytes \in Nat /\ StringBytes % 2 = 0
      BY CodecAssumption
    <3>2. PICK n \in Nat : n = Smaller(bytes, StringBytes) /\ n <= StringBytes /\ n % 2 = 0
      BY <3>1 DEF Smaller
    <3>3. f = [type |-> "wide", name |-> "path", size |-> n, requested |-> 0, captured |-> 0]
      BY <3>2 DEF Field, Unicode, Call
    <3>4. f \in FieldRecord
      BY <3>3 DEF FieldRecord, FieldTypes, NamesInUse, HookFieldNames
    <3>5. f.type = "wide" /\ f.size = n /\ f.name = "path"
      BY <3>3
    <3>6. /\ "path" \notin FieldNames(event) /\ ~(event.size + FieldBytes(f) > EventBytes)
          /\ event' = [event EXCEPT !.size = @ + FieldBytes(f), !.fields = Append(@, f)]
      BY <2>2 DEF Annotated
    <3> HIDE DEF f
    <3>7. HasExpectedValueSize(f)
      BY <3>2, <3>5, WideExpected
    <3>8. Identifier(f.name)
      BY <3>5, NamesAssumption
    <3>9. event.size + FieldBytes(f) <= EventBytes
      <4>1. FieldBytes(f) \in Nat
        BY <3>4, <3>8, LengthsAreNumbers DEF FieldRecord, FieldBytes, FieldHeaderBytes
      <4>2. event.size \in Nat /\ EventBytes \in Nat
        BY <1>1, LengthsAreNumbers DEF EventRecord
      <4>. QED BY <3>6, <4>1, <4>2
    <3>. QED BY <1>1, <3>4, <3>5, <3>6, <3>7, <3>8, <3>9, FieldFits
  <2>. QED BY <2>1, <2>2 DEF Write
<1>3. IsValidTraceEvent(event')
  BY <1>2, WellFormedIsValid
<1>4. stage' = "written" /\ counted' = 1 /\ printed' = 1
  <2>1. counted = 0 /\ printed = 0
    BY <1>1 DEF RecordInv
  <2>. QED BY <1>3, <2>1 DEF Write
<1>5. missing' = missing /\ todo' = todo /\ hook' = hook
  BY DEF Write
<1>. QED BY <1>1, <1>2, <1>4, <1>5 DEF RecordInv, Built, Stages

LEMMA RecordStep ==
  ASSUME RecordInv, [CodecNext]_codecVars
  PROVE  RecordInv'
<1>1. ASSUME UNCHANGED <<hook, todo, event, missing, counted, printed>>,
             stage' = stage \/ (stage = "stamping" /\ stage' = "stamped")
      PROVE  RecordInv'
  BY <1>1 DEF RecordInv, Stages
<1>2. CASE UNCHANGED codecVars
  BY <1>1, <1>2 DEF codecVars
<1>3. CASE ReadHigh1Time \/ ReadLowPart \/ CompareHigh2Time \/ KernelTick
  BY <1>1, <1>3 DEF ReadHigh1Time, ReadLowPart, CompareHigh2Time, KernelTick
<1>. QED
  BY <1>2, <1>3, StartHookKeeps, StartCustomKeeps, BeginFieldsKeeps, AddFieldKeeps,
     EmitKeeps, ReceiveKeeps, WriteKeeps
  DEF CodecNext

\* Every record is built as the validator wants it, from the first Add call to
\* the path the tracker adds.
THEOREM RecordInvariant == CodecSpec => []RecordInv
<1>1. CodecInit => RecordInv
  BY EmptySeq DEF CodecInit, RecordInv, Stages
<1>2. RecordInv /\ [CodecNext]_codecVars => RecordInv'
  BY RecordStep
<1>. QED BY <1>1, <1>2, PTL DEF CodecSpec

\* The size of a record is within its buffer at every moment, whatever is added
\* to it (AppendTraceField, AppendWideString).
THEOREM CodecTypeCorrect == CodecSpec => []CodecTypeOK
<1>1. ASSUME RecordInv PROVE CodecTypeOK
  <2>1. EventBytes \in Nat
    BY CodecAssumption
  <2>2. event.size \in 0 .. EventBytes /\ event.flags \subseteq {"truncated", "field_error"}
    <3>1. CASE stage = "idle"
      <4>1. Blank.size = 0 /\ Blank.flags = {}
        BY BlankRecord
      <4>2. event.size = 0 /\ event.flags = {}
        BY <1>1, <3>1, <4>1 DEF RecordInv
      <4>. QED BY <2>1, <4>2
    <3>2. CASE Built(event)
      BY <2>1, <3>2 DEF Built, EventRecord, WellFormed, Void
    <3>. QED BY <1>1, <3>1, <3>2 DEF RecordInv
  <2>3. counted \in 0 .. 1 /\ printed \in 0 .. counted
    BY <1>1 DEF RecordInv
  <2>. QED BY <1>1, <2>2, <2>3 DEF CodecTypeOK, RecordInv, Stages
<1>. QED BY <1>1, RecordInvariant, PTL

\* What EmitTraceEvent accepts is never dropped on the way, whatever sequence of
\* Add calls built it, whatever they read and whatever path was appended: the
\* validator's cursor ends where the builder's size says, and every event
\* counted in the summary is in the output (ParseTraceEvent, RenderEvent).
THEOREM EmittedIsPrinted == CodecSpec => []NothingMalformed
<1>1. RecordInv => NothingMalformed
  BY DEF RecordInv, NothingMalformed
<1>. QED BY <1>1, RecordInvariant, PTL

\* The flags of a record are set exactly when a field was refused or a string
\* cut, and the path the tracker adds does not disturb them.
THEOREM FlagsAreExact == CodecSpec => []FlagsTellLoss
<1>1. RecordInv => FlagsTellLoss
  BY DEF RecordInv, FlagsTellLoss
<1>. QED BY <1>1, RecordInvariant, PTL

-----------------------------------------------------------------------------
(* The hooks of the repository lose nothing: each Add call takes no more    *)
(* than MostBytes, and the sum of these fits.                              *)

\* The bytes the calls may have taken up to each of them.
Sums(bytes, calls) ==
  /\ bytes \in [0 .. Len(calls) -> Nat]
  /\ bytes[0] = 0
  /\ \A i \in 1 .. Len(calls) : bytes[i] = bytes[i - 1] + MostBytes(calls[i])

\* The Add calls of the repository's hooks.
HookCall(call) ==
  /\ IsAddCall(call) /\ call.add # "wide" /\ call.name \in NamesInUse
  /\ Identifier(call.name)

\* The value of each kind of call, at most.
LEMMA MostBytesIs ==
  ASSUME NEW call, HookCall(call), Identifier("root_directory")
  PROVE  /\ MostBytes(call) \in Nat /\ Len(call.name) \in Nat
         /\ call.add = "fixed" => MostBytes(call) = 4 + Len(call.name) + call.size
         /\ call.add = "preview" => MostBytes(call) = 16 + Len(call.name) + BufferBytes
         /\ call.add = "unicode" => MostBytes(call) = 4 + Len(call.name) + StringBytes
         /\ call.add = "objectpath" =>
              MostBytes(call) = 4 + Len(call.name)
                + (FieldBytes(Field(Pointer("root_directory"), 8)) + StringBytes)
         /\ FieldBytes(Field(Pointer("root_directory"), 8)) \in Nat
<1>1. PICK n \in Nat : n = Len(call.name)
  BY LengthsAreNumbers DEF HookCall
<1>2. PICK r \in Nat : r = FieldBytes(Field(Pointer("root_directory"), 8))
  <2>1. PICK m \in Nat : m = Len("root_directory")
    BY LengthsAreNumbers
  <2>2. Field(Pointer("root_directory"), 8).name = "root_directory"
        /\ Field(Pointer("root_directory"), 8).size = 8
    BY DEF Field, Pointer, Call
  <2>3. FieldBytes(Field(Pointer("root_directory"), 8)) = 4 + m + 8
    BY <2>1, <2>2 DEF FieldBytes, FieldHeaderBytes
  <2>. QED BY <2>3
<1>3. BufferBytes \in Nat /\ StringBytes \in Nat
  BY CodecAssumption
<1>4. CASE call.add = "fixed"
  <2>1. call.size \in Nat
    BY DEF HookCall, IsAddCall
  <2>2. MostBytes(call) = 4 + n + call.size
    BY <1>1, <1>4 DEF MostBytes, FieldHeaderBytes
  <2>. QED BY <1>1, <1>2, <1>4, <2>1, <2>2
<1>5. CASE call.add = "preview"
  <2>1. MostBytes(call) = 4 + n + (12 + BufferBytes)
    BY <1>1, <1>5 DEF MostBytes, FieldHeaderBytes, BytesHeaderBytes
  <2>2. MostBytes(call) = 16 + n + BufferBytes /\ MostBytes(call) \in Nat
    BY <1>3, <2>1
  <2>. QED BY <1>1, <1>2, <1>5, <2>2
<1>6. CASE call.add = "unicode"
  <2>1. MostBytes(call) = 4 + n + StringBytes
    BY <1>1, <1>6 DEF MostBytes, FieldHeaderBytes
  <2>2. MostBytes(call) \in Nat
    BY <1>3, <2>1
  <2>. QED BY <1>1, <1>2, <1>6, <2>1, <2>2
<1>7. CASE call.add = "objectpath"
  <2>1. MostBytes(call) = 4 + n + (r + StringBytes)
    BY <1>1, <1>2, <1>7 DEF MostBytes, FieldHeaderBytes
  <2>2. MostBytes(call) \in Nat
    BY <1>3, <2>1
  <2>. QED BY <1>1, <1>2, <1>7, <2>1, <2>2
<1>. QED BY <1>4, <1>5, <1>6, <1>7 DEF HookCall, IsAddCall

\* What an Add call that loses nothing does to a record.
Adds(e, r, names, most) ==
  /\ Built(r) /\ r.magic /\ r.module = e.module /\ r.api = e.api
  /\ "field_error" \notin r.flags
  /\ FieldNames(r) = FieldNames(e) \cup names
  /\ r.size <= e.size + most

Sound(e) == Built(e) /\ e.magic /\ "field_error" \notin e.flags

LEMMA AppendFits ==
  ASSUME NEW e, Sound(e), NEW f \in FieldRecord, HasExpectedValueSize(f),
         Identifier(f.name), f.name \notin FieldNames(e),
         e.size + FieldBytes(f) <= EventBytes
  PROVE  Adds(e, AppendTraceField(e, f), {f.name}, FieldBytes(f))
<1>0. /\ e \in EventRecord /\ WellFormed(e) /\ e.size \in Nat
      /\ FieldBytes(f) \in Nat /\ EventBytes \in Nat
  <2>1. e \in EventRecord /\ WellFormed(e)
    BY DEF Sound, Built, Void
  <2>2. FieldBytes(f) \in Nat
    BY LengthsAreNumbers DEF FieldRecord, FieldBytes, FieldHeaderBytes
  <2>. QED BY <2>1, <2>2, LengthsAreNumbers DEF EventRecord
<1>1. PICK r : r = AppendTraceField(e, f)
  OBVIOUS
<1>2. r = [e EXCEPT !.size = @ + FieldBytes(f), !.fields = Append(@, f)]
  <2>1. e.magic /\ ~(e.size + FieldBytes(f) > EventBytes)
    BY <1>0 DEF Sound
  <2>. QED BY <1>1, <2>1 DEF AppendTraceField
<1>3. r \in EventRecord /\ WellFormed(r) /\ r.flags = e.flags
  BY <1>0, <1>2, FieldFits
<1>4. PICK size \in Nat, fields \in Seq(FieldRecord) :
        size = e.size + FieldBytes(f) /\ fields = Append(e.fields, f)
  <2>1. e.fields \in Seq(FieldRecord) /\ e.size + FieldBytes(f) \in Nat
    BY <1>0 DEF EventRecord
  <2>2. Append(e.fields, f) \in Seq(FieldRecord)
    BY <2>1, AppendProperties
  <2>. QED BY <2>1, <2>2
<1>5. r = [e EXCEPT !.size = size, !.fields = fields]
  BY <1>2, <1>4
<1>6. /\ r.magic = e.magic /\ r.module = e.module /\ r.api = e.api
      /\ r.size = size /\ r.fields = fields
  BY <1>0, <1>5 DEF EventRecord
<1>7. FieldNames(r) = FieldNames(e) \cup {f.name}
  <2>1. e.fields \in Seq(FieldRecord)
    BY <1>0 DEF EventRecord
  <2>2. PICK n \in Nat : n = Len(e.fields) /\ DOMAIN e.fields = 1 .. n
    BY <2>1, LenProperties
  <2>3. /\ DOMAIN fields = 1 .. (n + 1) /\ fields[n + 1] = f
        /\ \A i \in 1 .. n : fields[i] = e.fields[i]
    BY <1>4, <2>1, <2>2, AppendProperties, LenProperties
  <2>4. /\ n + 1 \in 1 .. (n + 1)
        /\ \A i \in 1 .. (n + 1) : (i \in 1 .. n \/ i = n + 1)
        /\ \A i \in 1 .. n : i \in 1 .. (n + 1)
    BY <2>2
  <2>. QED BY <1>6, <2>2, <2>3, <2>4 DEF FieldNames
<1>8. size <= e.size + FieldBytes(f)
  BY <1>0, <1>4
<1>. QED BY <1>1, <1>3, <1>6, <1>7, <1>8 DEF Adds, Sound, Built

\* What a call may take, it takes at most.
LEMMA AddsMore ==
  ASSUME NEW e, Sound(e), NEW r, NEW names, NEW m \in Nat, NEW n \in Nat,
         m <= n, Adds(e, r, names, m)
  PROVE  Adds(e, r, names, n)
<1>1. e.size \in Nat /\ r.size \in Nat
  BY DEF Sound, Adds, Built, EventRecord
<1>. QED BY <1>1 DEF Adds

\* A cut is flagged and changes nothing else.
LEMMA CutIsSound ==
  ASSUME NEW e, Sound(e), NEW r, r = [e EXCEPT !.flags = @ \cup {"truncated"}]
  PROVE  /\ Sound(r) /\ r.module = e.module /\ r.api = e.api /\ r.size = e.size
         /\ FieldNames(r) = FieldNames(e)
<1>1. Built(r) /\ r.fields = e.fields
  BY FlagKeeps DEF Sound
<1>2. /\ r.magic = e.magic /\ r.module = e.module /\ r.api = e.api /\ r.size = e.size
      /\ r.flags = e.flags \cup {"truncated"}
  BY DEF Sound, Built, EventRecord
<1>3. "field_error" # "truncated"
  OBVIOUS
<1>. QED BY <1>1, <1>2, <1>3 DEF Sound, FieldNames

LEMMA UnicodeFits ==
  ASSUME NEW e, Sound(e), NEW call, call.type = "wide", call.name \in NamesInUse,
         Identifier(call.name), call.name \notin FieldNames(e),
         NEW in, in.got \in Nat, in.got % 2 = 0, in.got <= StringBytes,
         e.size + (4 + Len(call.name) + StringBytes) <= EventBytes
  PROVE  Adds(e, AddTraceUnicodeString(e, call, in), {call.name},
              4 + Len(call.name) + StringBytes)
<1> DEFINE cut == Even(in.wanted) > StringBytes
           start == IF cut THEN [e EXCEPT !.flags = @ \cup {"truncated"}] ELSE e
           f == Field(call, in.got)
           r == AppendTraceField(start, f)
<1>1. /\ Sound(start) /\ start.module = e.module /\ start.api = e.api
      /\ start.size = e.size /\ FieldNames(start) = FieldNames(e)
  BY CutIsSound
<1>2. AddTraceUnicodeString(e, call, in) = r
  <2>1. ~(in.got > StringBytes)
    BY CodecAssumption
  <2>2. AddTraceUnicodeString(e, call, in) = AddTraceWideString(start, call, in.got)
    BY DEF AddTraceUnicodeString
  <2>. QED BY <2>1, <2>2 DEF AddTraceWideString
<1> HIDE DEF start
<1>3. f \in FieldRecord /\ f.type = "wide" /\ f.size = in.got /\ f.name = call.name
  <2>1. f \in FieldRecord /\ f.type = "wide" /\ f.size = in.got
    BY FieldTyped DEF FieldTypes
  <2>2. f.name = call.name
    BY DEF Field
  <2>. QED BY <2>1, <2>2
<1> HIDE DEF f
<1>4. HasExpectedValueSize(f)
  BY <1>3, WideExpected
<1>5. PICK n \in Nat, g \in Nat : n = Len(call.name) /\ g = in.got
  BY LengthsAreNumbers
<1>6. /\ FieldBytes(f) = 4 + n + g /\ 4 + n + g <= 4 + n + StringBytes
      /\ 4 + n + g \in Nat /\ 4 + n + StringBytes \in Nat
      /\ start.size + (4 + n + g) <= EventBytes
  <2>1. StringBytes \in Nat /\ EventBytes \in Nat /\ e.size \in Nat
    BY CodecAssumption DEF Sound, Built, EventRecord
  <2>2. FieldBytes(f) = 4 + n + g
    BY <1>3, <1>5 DEF FieldBytes, FieldHeaderBytes
  <2>3. e.size + (4 + n + StringBytes) <= EventBytes /\ g <= StringBytes
    BY <1>5
  <2>. QED BY <1>1, <2>1, <2>2, <2>3
<1>7. Adds(start, r, {call.name}, FieldBytes(f))
  BY <1>1, <1>3, <1>4, <1>6, AppendFits
<1>8. Adds(e, r, {call.name}, FieldBytes(f))
  BY <1>1, <1>7 DEF Adds
<1> HIDE DEF r
<1>. QED BY <1>2, <1>5, <1>6, <1>8, AddsMore

\* Every Add call of the repository's hooks adds its field when the names are new
\* and there is room for the largest value.
LEMMA AddedFits ==
  ASSUME Identifier("root_directory"),
         NEW e, Sound(e), NEW call, HookCall(call), NEW in \in Inputs(call),
         call.name # "root_directory", call.name \notin FieldNames(e),
         in.root => "root_directory" \notin FieldNames(e),
         e.size + MostBytes(call) <= EventBytes
  PROVE  Adds(e, Added(e, call, in),
              {call.name} \cup (IF in.root THEN {"root_directory"} ELSE {}),
              MostBytes(call))
<1>1. /\ in.root \in BOOLEAN /\ in.wanted \in Nat /\ in.got \in Nat
      /\ in.root => call.add = "objectpath"
      /\ call.add \in {"fixed", "wide"} => in.wanted = call.size /\ in.got = call.size
      /\ call.add \in {"unicode", "objectpath"} => in.got % 2 = 0 /\ in.got <= StringBytes
      /\ call.add = "preview" => in.got <= BufferBytes /\ in.got <= in.wanted
  BY InputKinds DEF HookCall
<1>2. PICK most \in Nat, n \in Nat, root \in Nat, size \in Nat :
        /\ most = MostBytes(call) /\ n = Len(call.name)
        /\ root = FieldBytes(Field(Pointer("root_directory"), 8))
        /\ size = e.size
        /\ call.add = "fixed" => most = 4 + n + call.size
        /\ call.add = "preview" => most = 16 + n + BufferBytes
        /\ call.add = "unicode" => most = 4 + n + StringBytes
        /\ call.add = "objectpath" => most = 4 + n + (root + StringBytes)
  <2>1. e.size \in Nat
    BY DEF Sound, Built, EventRecord
  <2>. QED BY <2>1, MostBytesIs, SMTT(30)
<1>3. /\ EventBytes \in Nat /\ BufferBytes \in Nat /\ StringBytes \in Nat
      /\ size + most <= EventBytes
  BY <1>2, CodecAssumption
<1>4. IsAddCall(call) /\ call.name \in NamesInUse /\ Identifier(call.name)
  BY DEF HookCall
<1>5. CASE call.add = "fixed"
  <2>1. /\ <<call.type, call.size>> \in FixedValues
        /\ call.size \in Nat /\ in.got = call.size /\ ~in.root
    BY <1>1, <1>4, <1>5 DEF IsAddCall
  <2>2. call.type \in FieldTypes
    BY <2>1, FixedTypes
  <2> DEFINE f == Field(call, in.got)
  <2>3. f \in FieldRecord /\ f.type = call.type /\ f.size = call.size
    BY <1>4, <2>1, <2>2, FieldTyped
  <2>4. f.name = call.name
    BY DEF Field
  <2>5. Added(e, call, in) = AppendTraceField(e, f)
    BY <1>5 DEF Added
  <2> HIDE DEF f
  <2>6. HasExpectedValueSize(f)
    BY <2>1, <2>3, FixedValuesExpected
  <2>7. FieldBytes(f) = most
    BY <1>2, <1>5, <2>3, <2>4 DEF FieldBytes, FieldHeaderBytes
  <2>8. Adds(e, AppendTraceField(e, f), {f.name}, FieldBytes(f))
    BY <1>2, <1>3, <1>4, <2>3, <2>4, <2>6, <2>7, AppendFits
  <2>9. {call.name} \cup (IF in.root THEN {"root_directory"} ELSE {}) = {f.name}
    BY <2>1, <2>4
  <2>. QED BY <1>2, <2>5, <2>7, <2>8, <2>9
<1>6. CASE call.add = "preview"
  <2> DEFINE f == [Field(call, BytesHeaderBytes + in.got)
                     EXCEPT !.requested = in.wanted, !.captured = in.got]
  <2>1. call.type = "bytes" /\ ~in.root
    BY <1>1, <1>4, <1>6 DEF IsAddCall
  <2>2. PICK b \in Nat, m \in Nat, w \in Nat : b = 12 + m /\ m = in.got /\ w = in.wanted
    <3>1. 12 + in.got \in Nat
      BY <1>1
    <3>. QED BY <1>1, <3>1
  <2>3. f = [type |-> "bytes", name |-> call.name, size |-> b, requested |-> w, captured |-> m]
    <3>1. f = [[type |-> "bytes", name |-> call.name, size |-> b, requested |-> 0, captured |-> 0]
                 EXCEPT !.requested = w, !.captured = m]
      BY <2>1, <2>2 DEF Field, BytesHeaderBytes
    <3> HIDE DEF f
    <3>. QED BY <3>1
  <2>4. Added(e, call, in) = AppendTraceField(e, f)
    BY <1>6 DEF Added, AddTraceBufferPreview
  <2> HIDE DEF f
  <2>5. f \in FieldRecord
    BY <1>4, <2>2, <2>3 DEF FieldRecord, FieldTypes
  <2>6. /\ f.type = "bytes" /\ f.captured = m /\ f.requested = w /\ f.size = 12 + m
        /\ f.name = call.name
    BY <2>2, <2>3
  <2>7. m <= BufferBytes /\ m <= w
    BY <1>1, <1>6, <2>2
  <2>8. HasExpectedValueSize(f)
    BY <2>6, <2>7, PreviewExpected DEF BytesHeaderBytes
  <2>9. PICK bytes \in Nat : bytes = FieldBytes(f) /\ bytes <= most
    <3>1. FieldBytes(f) = 4 + n + (12 + m)
      BY <1>2, <2>6 DEF FieldBytes, FieldHeaderBytes
    <3>2. most = 16 + n + BufferBytes
      BY <1>2, <1>6
    <3>3. 4 + n + (12 + m) \in Nat /\ 4 + n + (12 + m) <= most
      BY <1>3, <2>7, <3>2
    <3>. QED BY <3>1, <3>3
  <2>10. e.size + FieldBytes(f) <= EventBytes
    BY <1>2, <1>3, <2>9
  <2>11. Adds(e, AppendTraceField(e, f), {call.name}, bytes)
    BY <1>4, <2>5, <2>6, <2>8, <2>9, <2>10, AppendFits
  <2>12. Adds(e, AppendTraceField(e, f), {call.name}, most)
    BY <2>9, <2>11, AddsMore
  <2>13. {call.name} \cup (IF in.root THEN {"root_directory"} ELSE {}) = {call.name}
    BY <2>1
  <2>. QED BY <1>2, <2>4, <2>12, <2>13
<1>7. CASE call.add = "unicode"
  <2>1. call.type = "wide" /\ ~in.root
    BY <1>1, <1>4, <1>7 DEF IsAddCall
  <2>2. 4 + Len(call.name) + StringBytes = most
    BY <1>2, <1>7
  <2>3. e.size + (4 + Len(call.name) + StringBytes) <= EventBytes
    BY <1>2, <1>3, <2>2
  <2>4. Adds(e, AddTraceUnicodeString(e, call, in), {call.name}, most)
    BY <1>1, <1>4, <1>7, <2>1, <2>2, <2>3, UnicodeFits
  <2>5. {call.name} \cup (IF in.root THEN {"root_directory"} ELSE {}) = {call.name}
    BY <2>1
  <2>6. Added(e, call, in) = AddTraceUnicodeString(e, call, in)
    BY <1>7 DEF Added
  <2>. QED BY <1>2, <2>4, <2>5, <2>6
<1>8. CASE call.add = "objectpath"
  <2> DEFINE f == Field(Pointer("root_directory"), 8)
             start == IF in.root THEN AppendTraceField(e, f) ELSE e
             r == AddTraceUnicodeString(start, call, in)
             extra == IF in.root THEN {"root_directory"} ELSE {}
             string == 4 + n + StringBytes
  <2>1. call.type = "wide"
    BY <1>4, <1>8 DEF IsAddCall
  <2>2. r = Added(e, call, in)
    BY <1>8 DEF Added, AddTraceObjectPath
  <2>3. most = root + string /\ string \in Nat /\ size + root <= EventBytes
        /\ string <= most
    <3>1. most = 4 + n + (root + StringBytes)
      BY <1>2, <1>8
    <3>2. size + most <= EventBytes /\ EventBytes \in Nat /\ StringBytes \in Nat
      BY <1>3
    <3>. QED BY <3>1, <3>2
  <2>4. f \in FieldRecord /\ HasExpectedValueSize(f) /\ f.name = "root_directory"
    <3>1. f = [type |-> "pointer", name |-> "root_directory", size |-> 8,
               requested |-> 0, captured |-> 0]
      BY DEF Field, Pointer, Call
    <3>2. f \in FieldRecord
      BY <3>1 DEF FieldRecord, FieldTypes, NamesInUse, HookFieldNames
    <3>3. f.type = "pointer" /\ f.size = 8 /\ f.name = "root_directory"
      BY <3>1
    <3> HIDE DEF f
    <3>4. HasExpectedValueSize(f)
      BY <3>3 DEF HasExpectedValueSize
    <3>. QED BY <3>2, <3>3, <3>4
  <2>5. root = FieldBytes(f)
    BY <1>2
  <2> HIDE DEF f
  <2>6. Adds(e, start, extra, root)
    <3>1. CASE in.root
      <4>1. Adds(e, AppendTraceField(e, f), {f.name}, FieldBytes(f))
        BY <1>2, <2>3, <2>4, <2>5, <3>1, AppendFits
      <4>. QED BY <2>4, <2>5, <3>1, <4>1
    <3>2. CASE ~in.root
      <4>1. e.size <= e.size + root
        BY <1>2
      <4>2. Adds(e, e, {}, root)
        BY <4>1 DEF Adds, Sound
      <4>. QED BY <3>2, <4>2
    <3>. QED BY <3>1, <3>2
  <2> HIDE DEF start
  <2>7. PICK middle \in Nat : middle = start.size /\ middle <= size + root
    <3>1. start.size \in Nat /\ start.size <= size + root
      BY <1>2, <2>6 DEF Adds, Built, EventRecord
    <3>. QED BY <3>1
  <2>8. Sound(start) /\ call.name \notin FieldNames(start)
    BY <2>6 DEF Adds, Sound
  <2>9. Adds(start, r, {call.name}, string)
    <3>1. start.size + (4 + Len(call.name) + StringBytes) <= EventBytes
      <4>1. middle + string <= EventBytes
        BY <1>3, <2>3, <2>7
      <4>. QED BY <1>2, <2>7, <4>1
    <3>2. Adds(start, r, {call.name}, 4 + Len(call.name) + StringBytes)
      BY <1>1, <1>4, <1>8, <2>1, <2>8, <3>1, UnicodeFits
    <3>. QED BY <1>2, <3>2
  <2> HIDE DEF r, string
  <2>10. r.size <= size + most
    <3>1. r.size \in Nat /\ r.size <= middle + string
      BY <2>7, <2>9 DEF Adds, Built, EventRecord
    <3>. QED BY <2>3, <2>7, <3>1
  <2>11. FieldNames(r) = FieldNames(e) \cup ({call.name} \cup extra)
    BY <2>6, <2>9 DEF Adds
  <2> HIDE DEF extra
  <2>12. Adds(e, r, {call.name} \cup extra, most)
    BY <1>2, <2>6, <2>9, <2>10, <2>11 DEF Adds
  <2>. QED BY <1>2, <2>2, <2>12 DEF extra
<1>. QED BY <1>4, <1>5, <1>6, <1>7, <1>8 DEF HookCall, IsAddCall

\* The sums are defined for every number of calls.
LEMMA SumsExist ==
  ASSUME NEW calls \in Seq(HookAddCalls),
         \A i \in 1 .. Len(calls) : MostBytes(calls[i]) \in Nat
  PROVE  \E bytes : Sums(bytes, calls)
<1> DEFINE n == Len(calls)
           Upto(f, k) == /\ f \in [0 .. k -> Nat] /\ f[0] = 0
                         /\ \A i \in 1 .. k : f[i] = f[i - 1] + MostBytes(calls[i])
           Wrong == {k \in 0 .. n : ~ \E f : Upto(f, k)}
<1>1. n \in Nat
  BY LenProperties
<1>2. ASSUME Wrong # {} PROVE FALSE
  <2>1. Wrong \subseteq Nat
    BY <1>1
  <2>2. PICK m \in Wrong : \A i \in Wrong : m <= i
    BY <1>2, <2>1, LeastNumber
  <2>3. Upto([i \in 0 .. 0 |-> 0], 0)
    OBVIOUS
  <2>4. m # 0
    BY <2>2, <2>3
  <2>5. m \in 1 .. n /\ m - 1 \in 0 .. n /\ m - 1 \notin Wrong
    <3>1. m \in 0 .. n
      BY <2>2
    <3>2. m \in 1 .. n /\ m - 1 \in 0 .. n /\ ~(m <= m - 1)
      BY <1>1, <2>4, <3>1
    <3> HIDE DEF Wrong
    <3>. QED BY <2>2, <3>2
  <2>6. PICK f : Upto(f, m - 1)
    BY <2>5
  <2>7. PICK next \in Nat : next = f[m - 1] + MostBytes(calls[m])
    <3>1. f[m - 1] \in Nat /\ MostBytes(calls[m]) \in Nat
      BY <2>5, <2>6
    <3>. QED BY <3>1
  <2> DEFINE g == [i \in 0 .. m |-> IF i < m THEN f[i] ELSE next]
  <2>8. g \in [0 .. m -> Nat] /\ g[0] = 0
    BY <2>5, <2>6, <2>7
  <2>9. ASSUME NEW i \in 1 .. m
        PROVE  g[i] = g[i - 1] + MostBytes(calls[i])
    <3>1. i - 1 \in 0 .. m /\ i - 1 < m /\ g[i - 1] = f[i - 1]
      BY <2>5
    <3>2. CASE i = m
      <4>1. g[m] = next
        BY <2>5
      <4>. QED BY <2>7, <3>1, <3>2, <4>1
    <3>3. CASE i # m
      <4>1. i \in 1 .. (m - 1) /\ g[i] = f[i]
        BY <2>5, <3>3
      <4>. QED BY <3>1, <4>1, <2>6
    <3>. QED BY <3>2, <3>3
  <2>10. Upto(g, m)
    BY <2>8, <2>9
  <2>. QED BY <2>2, <2>10
<1>3. n \in 0 .. n
  BY <1>1
<1>4. PICK f : Upto(f, n)
  BY <1>2, <1>3
<1>. QED BY <1>4 DEF Sums

\* The function in RecordBytes, by itself.
SumsOf(calls) ==
  CHOOSE bytes : bytes = [i \in 0 .. Len(calls) |->
                            IF i = 0 THEN 0 ELSE bytes[i - 1] + MostBytes(calls[i])]

LEMMA RecordBytesAre ==
  ASSUME NEW calls \in Seq(HookAddCalls), NEW f, Sums(f, calls)
  PROVE  RecordBytes(calls) = f[Len(calls)]
<1> DEFINE n == Len(calls)
           Solves(c) == c = [i \in 0 .. n |->
                               IF i = 0 THEN 0 ELSE c[i - 1] + MostBytes(calls[i])]
           bytes == SumsOf(calls)
           Wrong == {i \in 0 .. n : bytes[i] # f[i]}
<1>1. n \in Nat
  BY LenProperties
<1>2. Solves(f)
  <2>1. \A i \in 0 .. n : i = 0 \/ i \in 1 .. n
    BY <1>1
  <2>2. \A i \in 0 .. n : f[i] = IF i = 0 THEN 0 ELSE f[i - 1] + MostBytes(calls[i])
    BY <2>1 DEF Sums
  <2>3. f \in [0 .. n -> Nat]
    BY DEF Sums
  <2>. QED BY <2>2, <2>3
<1>3. Solves(bytes)
  BY <1>2 DEF SumsOf
<1>4. ASSUME NEW i \in 0 .. n
      PROVE  bytes[i] = IF i = 0 THEN 0 ELSE bytes[i - 1] + MostBytes(calls[i])
  <2> HIDE DEF bytes
  <2>. QED BY <1>3
<1>5. RecordBytes(calls) = bytes[n]
  BY DEF RecordBytes, SumsOf
<1> HIDE DEF bytes, Solves, n
<1>6. ASSUME Wrong # {} PROVE FALSE
  <2>1. Wrong \subseteq Nat
    BY <1>1
  <2>2. PICK m \in Wrong : \A i \in Wrong : m <= i
    BY <1>6, <2>1, LeastNumber
  <2>3. m # 0
    BY <1>1, <1>4, <2>2 DEF Sums
  <2>4. m \in 1 .. n /\ m - 1 \in 0 .. n /\ m - 1 \notin Wrong
    BY <1>1, <2>2, <2>3
  <2>5. bytes[m - 1] = f[m - 1]
    BY <2>4
  <2>6. f[m] = f[m - 1] + MostBytes(calls[m])
    BY <2>4 DEF Sums, n
  <2>. QED BY <1>4, <2>2, <2>3, <2>4, <2>5, <2>6
<1>7. n \in 0 .. n
  BY <1>1
<1>. QED BY <1>5, <1>6, <1>7 DEF n

\* What the first calls took is no more than what all of them take.
LEMMA SumsGrow ==
  ASSUME NEW calls \in Seq(HookAddCalls), NEW bytes, Sums(bytes, calls),
         \A i \in 1 .. Len(calls) : MostBytes(calls[i]) \in Nat,
         NEW k \in 0 .. Len(calls)
  PROVE  bytes[k] <= RecordBytes(calls) /\ RecordBytes(calls) \in Nat
<1> DEFINE n == Len(calls)
           Less == {d \in 0 .. (n - k) : ~(bytes[k] <= bytes[k + d])}
<1>1. n \in Nat /\ k \in Nat /\ k <= n
  BY LenProperties
<1>2. \A i \in 0 .. n : bytes[i] \in Nat
  BY DEF Sums
<1>3. ASSUME Less # {} PROVE FALSE
  <2>1. Less \subseteq Nat
    BY <1>1
  <2>2. PICK d \in Less : \A i \in Less : d <= i
    BY <1>3, <2>1, LeastNumber
  <2>3. d \in 0 .. (n - k) /\ ~(bytes[k] <= bytes[k + d])
    BY <2>2
  <2>4. d # 0
    BY <1>1, <1>2, <2>3
  <2>5. /\ d - 1 \in 0 .. (n - k) /\ d - 1 \notin Less /\ k + d \in 1 .. n
        /\ (k + d) - 1 = k + (d - 1) /\ k + (d - 1) \in 0 .. n
    <3>1. /\ d - 1 \in 0 .. (n - k) /\ ~(d <= d - 1) /\ k + d \in 1 .. n
          /\ (k + d) - 1 = k + (d - 1) /\ k + (d - 1) \in 0 .. n
      BY <1>1, <2>3, <2>4
    <3> HIDE DEF Less
    <3>. QED BY <2>2, <3>1
  <2>6. bytes[k] <= bytes[k + (d - 1)]
    BY <2>5
  <2>7. bytes[k + d] = bytes[k + (d - 1)] + MostBytes(calls[k + d])
    BY <2>5 DEF Sums
  <2>8. MostBytes(calls[k + d]) \in Nat
    BY <2>5
  <2>. QED BY <1>1, <1>2, <2>3, <2>5, <2>6, <2>7, <2>8
<1>4. n - k \in 0 .. (n - k) /\ k + (n - k) = n /\ n \in 0 .. n
  BY <1>1
<1>5. bytes[k] <= bytes[n]
  <2>1. n - k \notin Less
    BY <1>3
  <2>. QED BY <1>4, <2>1
<1>6. RecordBytes(calls) = bytes[n]
  BY RecordBytesAre
<1>. QED BY <1>2, <1>4, <1>5, <1>6

\* The calls of a hook with what the limits say of them.
HookHasRoom(api, calls) ==
  /\ \A i \in 1 .. Len(calls) : /\ HookCall(calls[i]) /\ MostBytes(calls[i]) \in Nat
                                /\ calls[i].name # "root_directory"
  /\ \A i \in 1 .. Len(calls) : \A j \in 1 .. (i - 1) :
       /\ calls[i].name # calls[j].name
       /\ calls[i].add # "objectpath" \/ calls[j].add # "objectpath"
  /\ Identifier(ModuleOfHook(api)) /\ Identifier(api)
  /\ HeaderBytes + Len(ModuleOfHook(api)) + Len(api) + RecordBytes(calls) <= EventBytes

LEMMA HooksHaveRoom ==
  ASSUME RoomForHooks, NEW api \in Hooks, NEW ok \in BOOLEAN
  PROVE  HookHasRoom(api, HookCalls(api, ok))
<1> DEFINE calls == HookCalls(api, ok)
<1>1. calls \in Seq(HookAddCalls)
  BY HookCallsAreAddCalls, NamesAssumption
<1>2. /\ Identifier("root_directory")
      /\ \A i \in 1 .. Len(calls) :
           Identifier(calls[i].name) /\ calls[i].name # "root_directory"
      /\ \A i \in 1 .. Len(calls) : \A j \in 1 .. (i - 1) :
           /\ calls[i].name # calls[j].name
           /\ calls[i].add # "objectpath" \/ calls[j].add # "objectpath"
      /\ HeaderBytes + Len(ModuleOfHook(api)) + Len(api) + RecordBytes(calls) <= EventBytes
  BY Zenon DEF RoomForHooks
<1> HIDE DEF calls
<1>3. ASSUME NEW i \in 1 .. Len(calls)
      PROVE  HookCall(calls[i]) /\ MostBytes(calls[i]) \in Nat
  <2>1. calls[i] \in HookAddCalls
    BY <1>1, ElementOfSeq
  <2>2. IsAddCall(calls[i]) /\ calls[i].name \in NamesInUse
    BY <2>1, AddCallsTyped DEF AddCalls
  <2>3. calls[i].add # "wide"
    BY <2>1 DEF HookAddCalls, CallsFor, Pointer, UInt32, Status, Preview, Unicode,
                ObjectPath, Call
  <2>4. HookCall(calls[i])
    BY <1>2, <2>2, <2>3 DEF HookCall
  <2>. QED BY <1>2, <2>4, MostBytesIs
<1>4. Identifier(ModuleOfHook(api)) /\ Identifier(api)
  BY NamesAssumption
<1>5. HookHasRoom(api, calls)
  BY <1>2, <1>3, <1>4 DEF HookHasRoom
<1>. QED BY <1>5 DEF calls

\* The first n calls have been made, each has added its field, and the rest is to do.
Reached(e, rest, calls, n) ==
  /\ Len(rest) = Len(calls) - n
  /\ \A i \in 1 .. Len(rest) : rest[i] = calls[n + i]
  /\ \E bytes : Sums(bytes, calls) /\ e.size <= NamesEnd(e) + bytes[n]
  /\ \A i \in 1 .. n : calls[i].name \in FieldNames(e)
  /\ \A name \in FieldNames(e) : \/ \E i \in 1 .. n : name = calls[i].name
                                 \/ name = "root_directory"
  /\ "root_directory" \in FieldNames(e) =>
       \E i \in 1 .. n : calls[i].add = "objectpath"

OfHook(e, api) == Sound(e) /\ e.module = ModuleOfHook(api) /\ e.api = api

\* The next call of a hook finds room.
LEMMA ReachedStep ==
  ASSUME Identifier("root_directory"),
         NEW api, NEW calls \in Seq(HookAddCalls), HookHasRoom(api, calls),
         NEW e, OfHook(e, api), NEW rest \in Seq(AddCalls), rest # <<>>,
         NEW n \in 0 .. Len(calls), Reached(e, rest, calls, n),
         NEW in \in Inputs(Head(rest))
  PROVE  /\ OfHook(Added(e, Head(rest), in), api)
         /\ n + 1 \in 0 .. Len(calls)
         /\ Reached(Added(e, Head(rest), in), Tail(rest), calls, n + 1)
<1> DEFINE call == Head(rest)
           r == Added(e, call, in)
           names == {call.name} \cup (IF in.root THEN {"root_directory"} ELSE {})
<1>1. PICK length \in Nat : length = Len(calls)
  BY LenProperties
<1>2. /\ Len(rest) \in Nat /\ Len(rest) >= 1 /\ call = rest[1]
      /\ Tail(rest) \in Seq(AddCalls) /\ Len(Tail(rest)) = Len(rest) - 1
      /\ \A i \in 1 .. Len(Tail(rest)) : Tail(rest)[i] = rest[i + 1]
  BY HeadTailProperties, LenProperties, EmptySeq
<1>3. /\ n \in Nat /\ n + 1 \in 1 .. length /\ 1 \in 1 .. Len(rest) /\ (n + 1) - 1 = n
      /\ \A j \in 1 .. n : j \in 1 .. length
      /\ Len(rest) = length - n
  BY <1>1, <1>2 DEF Reached
<1>4. call = calls[n + 1]
  BY <1>2, <1>3 DEF Reached
<1>5. HookCall(call) /\ MostBytes(call) \in Nat /\ call.name # "root_directory"
  BY <1>1, <1>3, <1>4 DEF HookHasRoom
<1>6. \A j \in 1 .. n : /\ call.name # calls[j].name
                        /\ call.add # "objectpath" \/ calls[j].add # "objectpath"
  BY <1>1, <1>3, <1>4 DEF HookHasRoom
<1>7. call.name \notin FieldNames(e)
  BY <1>5, <1>6 DEF Reached
<1>8. in.root => call.add = "objectpath"
  BY <1>5, InputKinds DEF HookCall
<1>9. in.root => "root_directory" \notin FieldNames(e)
  BY <1>6, <1>8 DEF Reached
<1>10. PICK bytes : Sums(bytes, calls) /\ e.size <= NamesEnd(e) + bytes[n]
  BY DEF Reached
<1>11. PICK most \in Nat, size \in Nat, old \in Nat, new \in Nat, start \in Nat, all \in Nat :
        /\ most = MostBytes(call) /\ size = e.size /\ start = NamesEnd(e)
        /\ old = bytes[n] /\ new = bytes[n + 1] /\ all = RecordBytes(calls)
        /\ new = old + most /\ new <= all /\ size <= start + old
        /\ start + all <= EventBytes
  <2>1. e.size \in Nat
    BY DEF OfHook, Sound, Built, EventRecord
  <2>2. bytes[n] \in Nat /\ bytes[n + 1] \in Nat /\ bytes[n + 1] = bytes[n] + MostBytes(call)
    <3>1. n \in 0 .. length /\ n + 1 \in 0 .. length
      BY <1>1, <1>3
    <3>. QED BY <1>1, <1>3, <1>4, <1>10, <3>1 DEF Sums
  <2>3. bytes[n + 1] <= RecordBytes(calls) /\ RecordBytes(calls) \in Nat
    <3>1. n + 1 \in 0 .. Len(calls)
      BY <1>1, <1>3
    <3>2. \A i \in 1 .. Len(calls) : MostBytes(calls[i]) \in Nat
      BY DEF HookHasRoom
    <3>. QED BY <1>10, <3>1, <3>2, SumsGrow
  <2>4. NamesEnd(e) \in Nat /\ NamesEnd(e) + RecordBytes(calls) <= EventBytes
    <3>1. PICK a \in Nat, b \in Nat : a = Len(ModuleOfHook(api)) /\ b = Len(api)
      BY LengthsAreNumbers DEF HookHasRoom
    <3>2. NamesEnd(e) = 32 + a + b
      BY <3>1 DEF NamesEnd, OfHook, HeaderBytes
    <3>3. 32 + a + b + RecordBytes(calls) <= EventBytes
      BY <3>1 DEF HookHasRoom, HeaderBytes
    <3>. QED BY <3>2, <3>3
  <2>. QED BY <1>5, <1>10, <2>1, <2>2, <2>3, <2>4
<1>a. /\ new = old + most /\ new <= all /\ size <= start + old
      /\ start + all <= EventBytes
  BY <1>11, Zenon
<1>12. e.size + MostBytes(call) <= EventBytes
  <2>1. EventBytes \in Nat
    BY CodecAssumption
  <2>2. size + most <= EventBytes
    BY <1>a, <2>1
  <2> HIDE DEF call
  <2>. QED BY <1>11, <2>2
<1>13. Sound(e)
  BY DEF OfHook
<1>14. Adds(e, r, names, MostBytes(call))
  BY <1>5, <1>7, <1>9, <1>12, <1>13, AddedFits
<1> HIDE DEF r, call
<1>15. OfHook(r, api) /\ NamesEnd(r) = NamesEnd(e)
  BY <1>14 DEF Adds, OfHook, Sound, NamesEnd
<1>16. r.size <= NamesEnd(r) + bytes[n + 1]
  <2>1. PICK grown \in Nat : grown = r.size /\ grown <= size + most
    BY <1>11, <1>14 DEF Adds, Built, EventRecord
  <2>2. grown <= start + new
    <3>1. grown <= size + most
      BY <2>1
    <3>. QED BY <1>a, <3>1
  <2>3. NamesEnd(r) = start /\ bytes[n + 1] = new
    BY <1>11, <1>15
  <2>. QED BY <2>1, <2>2, <2>3
<1>17. FieldNames(r) = FieldNames(e) \cup names
  BY <1>14 DEF Adds
<1>18. \A i \in 1 .. (n + 1) : i \in 1 .. n \/ i = n + 1
  BY <1>3
<1>19. n + 1 \in 1 .. (n + 1) /\ \A i \in 1 .. n : i \in 1 .. (n + 1)
  BY <1>3
<1>20. \A i \in 1 .. (n + 1) : calls[i].name \in FieldNames(r)
  BY <1>4, <1>17, <1>18 DEF Reached
<1>21. \A name \in FieldNames(r) : \/ \E i \in 1 .. (n + 1) : name = calls[i].name
                                   \/ name = "root_directory"
  <2>1. ASSUME NEW name \in FieldNames(r), name # "root_directory"
        PROVE  \E i \in 1 .. (n + 1) : name = calls[i].name
    <3>1. CASE name \in FieldNames(e)
      BY <1>19, <2>1, <3>1 DEF Reached
    <3>2. CASE name = call.name
      BY <1>4, <1>19, <3>2
    <3>. QED BY <1>17, <2>1, <3>1, <3>2
  <2>. QED BY <2>1
<1>22. "root_directory" \in FieldNames(r) =>
         \E i \in 1 .. (n + 1) : calls[i].add = "objectpath"
  <2>1. CASE "root_directory" \in FieldNames(e)
    BY <1>19, <2>1 DEF Reached
  <2>2. CASE in.root
    BY <1>4, <1>8, <1>19, <2>2
  <2>. QED BY <1>5, <1>17, <2>1, <2>2
<1>23. /\ Len(Tail(rest)) = Len(calls) - (n + 1)
       /\ \A i \in 1 .. Len(Tail(rest)) : Tail(rest)[i] = calls[(n + 1) + i]
  <2>1. Len(Tail(rest)) = length - (n + 1)
    <3>1. length \in Nat /\ n \in Nat /\ Len(rest) = length - n
      BY <1>1, <1>3
    <3>. QED BY <1>2, <3>1
  <2>2. ASSUME NEW i \in 1 .. Len(Tail(rest))
        PROVE  Tail(rest)[i] = calls[(n + 1) + i]
    <3>1. i + 1 \in 1 .. Len(rest) /\ n + (i + 1) = (n + 1) + i
      <4>1. PICK k \in Nat : k = Len(rest) /\ k >= 1 /\ Len(Tail(rest)) = k - 1
        BY <1>2
      <4>2. i \in 1 .. (k - 1)
        BY <4>1
      <4>3. n \in Nat /\ k \in Nat
        BY <1>3
      <4>4. i + 1 \in 1 .. k /\ n + (i + 1) = (n + 1) + i
        BY ONLY <4>2, <4>3
      <4>. QED BY <4>1, <4>4
    <3>2. rest[i + 1] = calls[n + (i + 1)]
      BY <3>1 DEF Reached
    <3>. QED BY <1>2, <3>1, <3>2
  <2>. QED BY <1>1, <2>1, <2>2
<1>24. Reached(r, Tail(rest), calls, n + 1)
  BY <1>10, <1>16, <1>20, <1>21, <1>22, <1>23 DEF Reached
<1>25. n + 1 \in 0 .. Len(calls)
  BY <1>1, <1>3
<1>. QED BY <1>15, <1>24, <1>25 DEF r, call

\* Every hook of the repository records the result of the call.
LEMMA ResultIsRecorded ==
  ASSUME NEW api \in HookNames, NEW ok \in BOOLEAN
  PROVE  \E i \in DOMAIN HookCalls(api, ok) : HookCalls(api, ok)[i].name = "result"
<1> DEFINE HasResult(calls) == \E i \in DOMAIN calls : calls[i].name = "result"
<1>1. Status("result").name = "result"
  BY DEF Status, Call
<1>2. ASSUME NEW calls \in Seq(HookAddCalls)
      PROVE  HasResult(calls \o <<Status("result")>>)
  <2>1. Status("result") \in HookAddCalls
    BY DEF HookAddCalls, CallsFor, HookFieldNames
  <2>2. PICK last \in Seq(HookAddCalls) : last = <<Status("result")>> /\ Len(last) = 1
    <3>1. \A call \in HookAddCalls : <<call>> \in Seq(HookAddCalls) /\ Len(<<call>>) = 1
      OBVIOUS
    <3>. QED BY <2>1, <3>1
  <2>3. /\ calls \o last \in Seq(HookAddCalls) /\ Len(calls) \in Nat
        /\ Len(calls \o last) = Len(calls) + 1
        /\ (calls \o last)[Len(calls) + 1] = last[1]
    <3>1. /\ calls \o last \in Seq(HookAddCalls) /\ Len(calls) \in Nat
          /\ Len(calls \o last) = Len(calls) + 1
          /\ \A i \in 1 .. (Len(calls) + 1) : (calls \o last)[i] =
               IF i <= Len(calls) THEN calls[i] ELSE last[i - Len(calls)]
      BY <2>2, ConcatProperties, LenProperties
    <3>2. Len(calls) + 1 \in 1 .. (Len(calls) + 1) /\ ~(Len(calls) + 1 <= Len(calls))
          /\ (Len(calls) + 1) - Len(calls) = 1
      BY <3>1
    <3>. QED BY <3>1, <3>2
  <2>4. DOMAIN (calls \o last) = 1 .. (Len(calls) + 1)
    BY <2>3, LenProperties
  <2>5. Len(calls) + 1 \in 1 .. (Len(calls) + 1) /\ last[1] = Status("result")
    BY <2>2, <2>3
  <2>6. HasResult(calls \o last)
    BY <1>1, <2>3, <2>4, <2>5
  <2>. QED BY <2>2, <2>6
<1>3. HasResult(NtCreateFile)
  <2>1. 12 \in DOMAIN NtCreateFile /\ NtCreateFile[12] = Status("result")
    BY DEF NtCreateFile
  <2>. QED BY <1>1, <2>1
<1>4. HasResult(NtOpenFile)
  <2>1. 7 \in DOMAIN NtOpenFile /\ NtOpenFile[7] = Status("result")
    BY DEF NtOpenFile
  <2>. QED BY <1>1, <2>1
<1>5. HasResult(NtOpenKey)
  <2>1. 4 \in DOMAIN NtOpenKey /\ NtOpenKey[4] = Status("result")
    BY DEF NtOpenKey
  <2>. QED BY <1>1, <2>1
<1>6. HasResult(NtReadFile(ok)) /\ HasResult(NtWriteFile)
  <2>1. /\ Preview("buffer") \in HookAddCalls /\ Status("result") \in HookAddCalls
        /\ <<Preview("buffer")>> \in Seq(HookAddCalls) /\ <<>> \in Seq(HookAddCalls)
    <3>1. Preview("buffer") \in HookAddCalls /\ Status("result") \in HookAddCalls
      BY DEF HookAddCalls, CallsFor, HookFieldNames
    <3>. QED BY <3>1
  <2>2. FileTransfer \in Seq(HookAddCalls)
    <3>1. \A name \in HookFieldNames :
            Pointer(name) \in HookAddCalls /\ UInt32(name) \in HookAddCalls
      BY DEF HookAddCalls, CallsFor
    <3>. QED BY <3>1 DEF FileTransfer, HookFieldNames
  <2>3. HasResult((FileTransfer \o (IF ok THEN <<Preview("buffer")>> ELSE <<>>))
                    \o <<Status("result")>>)
    <3>1. FileTransfer \o (IF ok THEN <<Preview("buffer")>> ELSE <<>>) \in Seq(HookAddCalls)
      BY <2>1, <2>2, ConcatProperties
    <3> HIDE DEF HasResult
    <3>. QED BY <1>2, <3>1
  <2>4. HasResult((FileTransfer \o <<Preview("buffer")>>) \o <<Status("result")>>)
    <3>1. FileTransfer \o <<Preview("buffer")>> \in Seq(HookAddCalls)
      BY <2>1, <2>2, ConcatProperties
    <3> HIDE DEF HasResult
    <3>. QED BY <1>2, <3>1
  <2>5. FileTransfer \o <<Preview("buffer"), Status("result")>>
          = (FileTransfer \o <<Preview("buffer")>>) \o <<Status("result")>>
    <3>1. <<Status("result")>> \in Seq(HookAddCalls)
      BY <2>1
    <3>2. <<Preview("buffer"), Status("result")>>
            = <<Preview("buffer")>> \o <<Status("result")>>
      BY <2>1
    <3>. QED BY <2>1, <2>2, <3>1, <3>2, ConcatAssociative
  <2> HIDE DEF HasResult
  <2>. QED BY <2>3, <2>4, <2>5 DEF NtReadFile, NtWriteFile
<1>7. HasResult(NtQueryValueKey)
  <2>1. 5 \in DOMAIN NtQueryValueKey /\ NtQueryValueKey[5] = Status("result")
    BY DEF NtQueryValueKey
  <2>. QED BY <1>1, <2>1
<1>8. HasResult(NtSetValueKey)
  <2>1. 6 \in DOMAIN NtSetValueKey /\ NtSetValueKey[6] = Status("result")
    BY DEF NtSetValueKey
  <2>. QED BY <1>1, <2>1
<1>9. HasResult(NtClose)
  <2>1. 2 \in DOMAIN NtClose /\ NtClose[2] = Status("result")
    BY DEF NtClose
  <2>. QED BY <1>1, <2>1
<1>10. HasResult(BCryptOpenAlgorithmProvider)
  <2>1. /\ 5 \in DOMAIN BCryptOpenAlgorithmProvider
        /\ BCryptOpenAlgorithmProvider[5] = Status("result")
    BY DEF BCryptOpenAlgorithmProvider
  <2>. QED BY <1>1, <2>1
<1>11. HasResult(HookCalls(api, ok))
  <2> HIDE DEF HasResult
  <2>. QED BY <1>3, <1>4, <1>5, <1>6, <1>7, <1>8, <1>9, <1>10 DEF HookCalls, HookNames
<1>. QED BY <1>11

\* How far a hook of the repository has come with its record.
CompleteInv ==
  stage \in {"stamping", "stamped", "building", "emitted"} /\ hook # "custom" =>
    /\ hook \in Hooks
    /\ OfHook(event, hook)
    /\ stage \in {"stamping", "stamped"} =>
         event.size = NamesEnd(event) /\ FieldNames(event) = {}
    /\ stage \in {"building", "emitted"} =>
         \E ok \in BOOLEAN : \E n \in 0 .. Len(HookCalls(hook, ok)) :
           Reached(event, todo, HookCalls(hook, ok), n)
    /\ stage = "emitted" => todo = <<>>

LEMMA StartHookBegins ==
  ASSUME NEW api \in Hooks, StartHook(api)
  PROVE  CompleteInv'
<1>1. Identifier(ModuleOfHook(api)) /\ Identifier(api)
  BY NamesAssumption
<1>2. PICK module \in ModuleNames : module = ModuleOfHook(api)
  BY DEF ModuleOfHook, ModuleNames
<1>3. api \in ApiNames
  BY DEF ApiNames
<1>4. PICK e : e = InitializeTraceEvent(module, api) /\ e = event'
  BY <1>2 DEF StartHook
<1>5. Built(e) /\ e.flags = {} /\ e.magic
  BY <1>1, <1>2, <1>3, <1>4, InitializeBuilds
<1>6. PICK m \in Nat, a \in Nat : m = Len(module) /\ a = Len(api)
  BY <1>1, <1>2, LengthsAreNumbers
<1>7. PICK size \in Nat : size = HeaderBytes + m + a
  BY DEF HeaderBytes
<1>8. e.module = module /\ e.api = api /\ e.size = size /\ e.fields = <<>>
  <2>1. PICK empty : Blank = [magic |-> FALSE, module |-> empty, api |-> empty,
                              size |-> 0, flags |-> {}, fields |-> <<>>]
    BY BlankRecord
  <2>2. e = [magic |-> TRUE, module |-> module, api |-> api, size |-> size,
             flags |-> {}, fields |-> <<>>]
    BY <1>1, <1>2, <1>4, <1>6, <1>7, <2>1 DEF InitializeTraceEvent
  <2>. QED BY <2>2
<1>9. e.size = NamesEnd(e) /\ FieldNames(e) = {}
  <2>1. FieldNames(e) = {}
    BY <1>8 DEF FieldNames
  <2>2. NamesEnd(e) = HeaderBytes + m + a
    BY <1>6, <1>8 DEF NamesEnd
  <2>. QED BY <1>7, <1>8, <2>1, <2>2
<1>10. OfHook(e, api)
  BY <1>2, <1>5, <1>8 DEF OfHook, Sound
<1>11. hook' = api /\ stage' = "stamping"
  BY DEF StartHook
<1>. QED BY <1>4, <1>9, <1>10, <1>11 DEF CompleteInv

LEMMA BeginFieldsBegins ==
  ASSUME RoomForHooks, CompleteInv, BeginFields
  PROVE  CompleteInv'
<1>1. /\ stage = "stamped" /\ stage' = "building" /\ event' = event /\ hook' = hook
  BY DEF BeginFields
<1>2. ASSUME hook # "custom"
      PROVE  \E ok \in BOOLEAN : \E n \in 0 .. Len(HookCalls(hook, ok)) :
               Reached(event, todo', HookCalls(hook, ok), n)
  <2>1. /\ hook \in Hooks /\ OfHook(event, hook) /\ event.size = NamesEnd(event)
        /\ FieldNames(event) = {}
    BY <1>1, <1>2 DEF CompleteInv
  <2>2. PICK ok \in BOOLEAN : todo' = HookCalls(hook, ok)
    BY <1>2 DEF BeginFields
  <2>3. PICK calls \in Seq(HookAddCalls) : calls = HookCalls(hook, ok)
    BY <2>1, HookCallsAreAddCalls, NamesAssumption
  <2>4. HookHasRoom(hook, calls)
    BY <2>1, <2>3, HooksHaveRoom
  <2>5. PICK bytes : Sums(bytes, calls)
    BY <2>4, SumsExist DEF HookHasRoom
  <2>6. event.size \in Nat /\ bytes[0] = 0 /\ Len(calls) \in Nat
    BY <2>1, <2>5, LenProperties DEF OfHook, Sound, Built, EventRecord, Sums
  <2>7. event.size <= NamesEnd(event) + bytes[0]
    BY <2>1, <2>6
  <2>8. /\ Len(calls) = Len(calls) - 0 /\ \A i \in 1 .. Len(calls) : calls[i] = calls[0 + i]
        /\ 0 \in 0 .. Len(calls) /\ \A i \in 1 .. 0 : FALSE
    BY <2>6
  <2>9. Reached(event, calls, calls, 0)
    BY <2>1, <2>5, <2>7, <2>8 DEF Reached
  <2>. QED BY <2>2, <2>3, <2>8, <2>9
<1>. QED BY <1>1, <1>2 DEF CompleteInv

LEMMA AddFieldGoesOn ==
  ASSUME RoomForHooks, RecordInv, CompleteInv, AddField
  PROVE  CompleteInv'
<1>1. /\ stage = "building" /\ stage' = "building" /\ hook' = hook
      /\ todo # <<>> /\ todo \in Seq(AddCalls) /\ todo' = Tail(todo)
  BY DEF AddField, RecordInv
<1>2. PICK in \in Inputs(Head(todo)) : event' = Added(event, Head(todo), in)
  BY DEF AddField
<1>3. ASSUME hook # "custom"
      PROVE  /\ hook \in Hooks /\ OfHook(event', hook)
             /\ \E ok \in BOOLEAN : \E n \in 0 .. Len(HookCalls(hook, ok)) :
                  Reached(event', todo', HookCalls(hook, ok), n)
  <2>1. /\ hook \in Hooks /\ OfHook(event, hook)
        /\ \E ok \in BOOLEAN : \E n \in 0 .. Len(HookCalls(hook, ok)) :
             Reached(event, todo, HookCalls(hook, ok), n)
    BY <1>1, <1>3 DEF CompleteInv
  <2>2. PICK ok \in BOOLEAN : \E n \in 0 .. Len(HookCalls(hook, ok)) :
             Reached(event, todo, HookCalls(hook, ok), n)
    BY <2>1
  <2>3. PICK calls \in Seq(HookAddCalls) : calls = HookCalls(hook, ok)
    BY <2>1, HookCallsAreAddCalls, NamesAssumption
  <2>4. HookHasRoom(hook, calls)
    BY <2>1, <2>3, HooksHaveRoom
  <2>5. PICK n \in 0 .. Len(calls) : Reached(event, todo, calls, n)
    BY <2>2, <2>3
  <2>6. Identifier("root_directory")
    BY DEF RoomForHooks
  <2>7. /\ OfHook(Added(event, Head(todo), in), hook)
        /\ n + 1 \in 0 .. Len(calls)
        /\ Reached(Added(event, Head(todo), in), Tail(todo), calls, n + 1)
    BY <1>1, <2>1, <2>4, <2>5, <2>6, ReachedStep
  <2>. QED BY <1>1, <1>2, <2>1, <2>3, <2>7
<1>. QED BY <1>1, <1>3 DEF CompleteInv

LEMMA CompleteStep ==
  ASSUME RoomForHooks, RecordInv, CompleteInv, [CodecNext]_codecVars
  PROVE  CompleteInv'
<1>1. CASE UNCHANGED codecVars
  BY <1>1 DEF codecVars, CompleteInv
<1>2. CASE \E api \in Hooks : StartHook(api)
  BY <1>2, StartHookBegins
<1>3. CASE StartCustom
  BY <1>3 DEF StartCustom, CompleteInv
<1>4. CASE ReadHigh1Time \/ ReadLowPart \/ KernelTick
  <2>1. UNCHANGED <<stage, hook, todo, event>>
    BY <1>4 DEF ReadHigh1Time, ReadLowPart, KernelTick
  <2>. QED BY <2>1 DEF CompleteInv
<1>5. CASE CompareHigh2Time
  <2>1. /\ UNCHANGED <<hook, todo, event>> /\ stage = "stamping"
        /\ stage' \in {"stamping", "stamped"}
    BY <1>5 DEF CompareHigh2Time
  <2>. QED BY <2>1 DEF CompleteInv
<1>6. CASE BeginFields
  BY <1>6, BeginFieldsBegins
<1>7. CASE AddField
  BY <1>7, AddFieldGoesOn
<1>8. CASE EmitTraceEvent
  <2>1. /\ UNCHANGED <<hook, todo, event>> /\ stage = "building" /\ todo = <<>>
        /\ stage' \in {"emitted", "refused"}
    BY <1>8 DEF EmitTraceEvent
  <2>. QED BY <2>1 DEF CompleteInv
<1>9. CASE Receive \/ Write
  BY <1>9 DEF Receive, Write, CompleteInv
<1>. QED BY <1>1, <1>2, <1>3, <1>4, <1>5, <1>6, <1>7, <1>8, <1>9 DEF CodecNext

\* With room for the largest values of each hook's fields, which TLC finds the
\* limits of trace_protocol.h to give, every record that a hook of the repository
\* emits has all its fields, the result and the handles among them, whatever was
\* read from the target and whether or not the call succeeded.
THEOREM HookRecordsComplete ==
  ASSUME RoomForHooks
  PROVE  CodecSpec => []HookEventsComplete
<1>1. CodecInit => CompleteInv
  BY DEF CodecInit, CompleteInv
<1>2. RecordInv /\ CompleteInv /\ [CodecNext]_codecVars => CompleteInv'
  BY CompleteStep
<1>3. ASSUME CompleteInv PROVE HookEventsComplete
  <2>1. SUFFICES ASSUME hook # "custom", stage = "emitted"
        PROVE  /\ "field_error" \notin event.flags
               /\ \E ok \in BOOLEAN : \A i \in DOMAIN HookCalls(hook, ok) :
                    HookCalls(hook, ok)[i].name \in FieldNames(event)
               /\ "result" \in FieldNames(event)
    BY DEF HookEventsComplete
  <2>2. PICK ok \in BOOLEAN : \E n \in 0 .. Len(HookCalls(hook, ok)) :
             Reached(event, todo, HookCalls(hook, ok), n)
    BY <1>3, <2>1 DEF CompleteInv
  <2>3. hook \in Hooks /\ OfHook(event, hook) /\ todo = <<>>
    BY <1>3, <2>1 DEF CompleteInv
  <2>4. hook \in HookNames
    BY <2>3, NamesAssumption
  <2>5. PICK calls \in Seq(HookAddCalls) : calls = HookCalls(hook, ok)
    BY <2>4, HookCallsAreAddCalls
  <2>6. PICK n \in 0 .. Len(calls) : Reached(event, todo, calls, n)
    BY <2>2, <2>5
  <2>7. Len(todo) = Len(calls) - n /\ \A i \in 1 .. n : calls[i].name \in FieldNames(event)
    BY <2>6 DEF Reached
  <2>8. n = Len(calls) /\ DOMAIN calls = 1 .. Len(calls)
    <3>1. Len(todo) = 0 /\ Len(calls) \in Nat /\ DOMAIN calls = 1 .. Len(calls)
      BY <2>3, LenProperties
    <3>. QED BY <2>6, <2>7, <3>1
  <2>9. \A i \in DOMAIN calls : calls[i].name \in FieldNames(event)
    BY <2>7, <2>8
  <2>10. PICK i \in DOMAIN calls : calls[i].name = "result"
    BY <2>4, <2>5, ResultIsRecorded
  <2>11. "field_error" \notin event.flags
    BY <2>3 DEF OfHook, Sound
  <2>. QED BY <2>5, <2>9, <2>10, <2>11
<1>. QED BY <1>1, <1>2, <1>3, RecordInvariant, PTL DEF CodecSpec
=============================================================================
