----------------------------- MODULE ImageMapper -----------------------------
(***************************************************************************)
(* InjectDll and ReflectiveDLLInject (src/apiscope/process_manager.cpp)    *)
(* copy the hook DLL into the target, relocate it and protect its          *)
(* sections; GetRemoteImageSize and GetRemoteExport read the copy back.    *)
(*                                                                         *)
(* The unit of sizes and addresses is a cell that holds a pointer and has  *)
(* a protection of its own; of a relocation block it is an entry. Cell k   *)
(* of the file holds the value k + 1, a fresh cell 0, and relocating one   *)
(* adds delta to it. Every call that can fail may fail on its own; held    *)
(* says what has been acquired and not yet given back. The sum of two      *)
(* DWORDs is reduced modulo DwordModulus before it is compared.            *)
(***************************************************************************)
EXTENDS Integers, SequencesExt

CONSTANTS
  DllFiles,     \* files that may be found as apiscope-hooks.dll
  LoadBases,    \* addresses VirtualAllocEx may choose
  DwordModulus, \* cells that a DWORD can tell apart
  MapperFaults  \* calls that may fail

Cells(from, count) == from..(from + count - 1)
ImageCells(f) == Cells(0, f.sizeOfImage)

Calls == {"CreateFileW", "GetFileSize", "VirtualAlloc", "ReadFile",
          "VirtualAllocEx", "VirtualAllocLocal", "WriteProcessMemory",
          "VirtualProtectEx", "FlushInstructionCache", "ReadProcessMemory",
          "CreateProcessW", "DebugActiveProcess"}

ASSUME MapperAssumption ==
  /\ LoadBases \subseteq Nat \ {0}
  /\ DwordModulus \in Nat \ {0}
  /\ MapperFaults \subseteq Calls

VARIABLES
  mapStep,      \* where InjectDll is, "idle" before and "returned" after it
  held,         \* "file", "buffer", "remote" and "local" as acquired
  dll,          \* the file
  base,         \* remoteDllBase, 0 before the allocation and when it is freed
  index,        \* the section the two section loops have reached
  local,        \* localDllBase, cell by cell
  remote,       \* the cells at remoteDllBase
  protection    \* and their protection

mapperVars == <<mapStep, held, dll, base, index, local, remote, protection>>
memoryVars == <<local, remote, protection>>

NoDll == [loads |-> FALSE]

MapperInit ==
  /\ mapStep = "idle" /\ held = {} /\ dll = NoDll /\ base = 0 /\ index = 1
  /\ local = <<>> /\ remote = <<>> /\ protection = <<>>

MayFail(call) == call \in MapperFaults

IsRangeWithin(offset, length, size) ==
  offset <= size /\ length <= size - offset

----------------------------------------------------------------------------
(* What a linker puts into a file *)

SectionRecord ==
  [address : Nat, raw : Nat, rawSize : Nat, virtualSize : Nat,
   characteristics : SUBSET {"execute", "read", "write"}]

\* Sections lie side by side, with what the file has of them and in memory.
SectionsApart(f) ==
  \A i, j \in 1..Len(f.sections) :
    LET s == f.sections[i]
        t == f.sections[j]
    IN  i # j => /\ Cells(s.address, s.rawSize) \cap Cells(t.address, t.rawSize) = {}
                 /\ Cells(s.address, s.virtualSize) \cap Cells(t.address, t.virtualSize) = {}

BlockRecord ==
  [page : Nat, size : Nat, entries : Seq([type : STRING, offset : Nat])]

\* Entry i of block k asks for cell p to be relocated.
Lists(f, k, i, p) ==
  LET block == f.relocation.blocks[k]
  IN  /\ i \in 1..(block.size - 1) /\ block.entries[i].type = "DIR64"
      /\ p = block.page + block.entries[i].offset

\* The first n blocks make up the table; block k ends at[k] units behind its
\* beginning.
IsTable(f, n, at) ==
  LET blocks == f.relocation.blocks
  IN  /\ at[0] = 0
      /\ \A k \in 1..n : /\ blocks[k].size >= 1 /\ blocks[k].page # 0
                        /\ at[k] = at[k - 1] + blocks[k].size
      /\ \/ n = Len(blocks) \/ at[n] + 1 > f.relocation.size
         \/ blocks[n + 1].page = 0

ListsInside(f, n) ==
  \A k \in 1..n : \A i \in 1..Len(f.relocation.blocks[k].entries) :
    LET block == f.relocation.blocks[k]
        p == block.page + block.entries[i].offset
    IN  Lists(f, k, i, p) => p < f.sizeOfImage

\* No target that a block lists needs more than a DWORD.
TargetsBelowWrap(f) ==
  \A k \in 1..Len(f.relocation.blocks) :
    \A i \in 1..Len(f.relocation.blocks[k].entries) :
      LET block == f.relocation.blocks[k]
          p == block.page + block.entries[i].offset
      IN  Lists(f, k, i, p) => p < DwordModulus

\* A table that can be followed to its end lists each pointer once.
ListsPointersOnce(f, n) ==
  /\ \A p \in f.pointers : \E k \in 1..n :
       \E i \in 1..Len(f.relocation.blocks[k].entries) : Lists(f, k, i, p)
  /\ \A k \in 1..n : \A i \in 1..Len(f.relocation.blocks[k].entries) :
       \A p \in ImageCells(f) : Lists(f, k, i, p) =>
         /\ p \in f.pointers
         /\ \A j \in 1..n : \A l \in 1..Len(f.relocation.blocks[j].entries) :
              Lists(f, j, l, p) => j = k /\ l = i

\* What lies in the export directory is the text of a forwarder; the end of the
\* directory is a sum of two DWORDs.
IsForwarder(f, offset) ==
  LET directory == f.exportDirectory
  IN  /\ offset >= directory.address
      /\ offset < (directory.address + directory.cells) % DwordModulus

\* A name leads by its ordinal to the place it stands for, or visibly nowhere.
NamesLead(f) ==
  \A k \in 1..Len(f.names) :
    LET offset == f.functions[f.ordinals[k]]
    IN  \/ f.ordinals[k] > Len(f.functions)
        \/ IsForwarder(f, offset)
        \/ offset = f.places[f.names[k]]

\* The place of a name is in a section with that right.
IsPlacedIn(f, name, right) ==
  \E i \in 1..Len(f.sections) :
    /\ right \in f.sections[i].characteristics
    /\ f.places[name] \in Cells(f.sections[i].address, f.sections[i].virtualSize)

LinkedFile(f) ==
  /\ f.names \in Seq(STRING) /\ NamesLead(f)
  /\ {f.size, f.sizeOfImage, f.sizeOfHeaders, f.imageBase} \subseteq Nat
  /\ f.sections \in Seq(SectionRecord) /\ SectionsApart(f)
  /\ f.relocation.size \in Nat /\ f.relocation.blocks \in Seq(BlockRecord)
  /\ \A k \in 1..Len(f.relocation.blocks) :
       f.relocation.blocks[k].size - 1 <= Len(f.relocation.blocks[k].entries)
  /\ \A n \in 0..Len(f.relocation.blocks) :
       \A at \in [0..n -> 0..f.relocation.size] :
         IsTable(f, n, at) /\ ListsInside(f, n) => ListsPointersOnce(f, n)

\* What is damaged in a file can be seen: it is one a linker has made, but for
\* numbers that lead out of it.
ASSUME LinkedFiles == \A f \in DllFiles : LinkedFile(f)

----------------------------------------------------------------------------
(* InjectDll *)

\* InjectDll returns null after it has given back what is in freed.
ReturnNull(freed) ==
  /\ held' = held \ freed
  /\ mapStep' = "returned" /\ base' = 0
  /\ UNCHANGED <<dll, index, memoryVars>>

Proceed(step) == mapStep' = step /\ UNCHANGED <<dll, base, index, memoryVars>>

\* The file is what it is when it is opened.
OpenDll(f) ==
  /\ mapStep = "idle"
  /\ \/ /\ MayFail("CreateFileW") /\ held' = {} /\ mapStep' = "returned"
     \/ /\ held' = {"file"} /\ mapStep' = "opened"
  /\ dll' = f
  /\ UNCHANGED <<base, index, memoryVars>>

CheckFileSize ==
  /\ mapStep = "opened"
  /\ \/ /\ MayFail("GetFileSize") \/ dll.size = 0
        /\ ReturnNull({"file"})
     \/ /\ dll.size > 0
        /\ Proceed("sized") /\ UNCHANGED held

AllocateBuffer ==
  /\ mapStep = "sized"
  /\ \/ MayFail("VirtualAlloc") /\ ReturnNull({"file"})
     \/ Proceed("allocated") /\ held' = held \cup {"buffer"}

\* A short read is a failure. The file is closed either way.
ReadDll ==
  /\ mapStep = "allocated"
  /\ \/ MayFail("ReadFile") /\ ReturnNull({"buffer", "file"})
     \/ Proceed("read") /\ held' = held \ {"file"}

----------------------------------------------------------------------------
(* ReflectiveDLLInject; InjectDll frees its buffer behind it *)

HeadersValid(f) ==
  /\ f.size >= f.dosHeaderSize
  /\ f.dosMagic /\ f.lfanew >= 0 /\ IsRangeWithin(f.lfanew, f.ntHeadersSize, f.size)
  /\ f.ntSignature /\ f.optionalMagic
  /\ IsRangeWithin(f.lfanew + f.ntHeadersSize,
                   Len(f.sections) * f.sectionHeaderSize, f.size)
  /\ f.sizeOfImage # 0
  /\ f.sizeOfHeaders <= f.size /\ f.sizeOfHeaders <= f.sizeOfImage

AllocateRemote ==
  /\ mapStep = "read"
  /\ \/ /\ MayFail("VirtualAllocEx") \/ ~HeadersValid(dll)
        /\ ReturnNull({"buffer"})
     \/ /\ HeadersValid(dll)
        /\ base' \in LoadBases
        /\ held' = held \cup {"remote"} /\ mapStep' = "reserved"
        /\ remote' = [p \in ImageCells(dll) |-> 0]
        /\ protection' = [p \in ImageCells(dll) |-> "PAGE_READWRITE"]
        /\ UNCHANGED <<dll, index, local>>

\* The local allocation and the copy of the headers.
AllocateLocal ==
  /\ mapStep = "reserved"
  /\ \/ MayFail("VirtualAllocLocal") /\ ReturnNull({"remote", "buffer"})
     \/ /\ held' = held \cup {"local"} /\ mapStep' = "copying"
        /\ local' = [p \in ImageCells(dll) |->
                       IF p < dll.sizeOfHeaders THEN p + 1 ELSE 0]
        /\ UNCHANGED <<dll, base, index, remote, protection>>

\* Seeded fault: the target's memory is left behind.
AbandonLocal == ReturnNull({"local", "buffer"})

\* A failure after the local allocation.
Abandon == ReturnNull({"local", "remote", "buffer"})

CopySection ==
  /\ mapStep = "copying" /\ index <= Len(dll.sections)
  /\ LET s == dll.sections[index]
         fits == /\ IsRangeWithin(s.raw, s.rawSize, dll.size)
                 /\ IsRangeWithin(s.address, s.rawSize, dll.sizeOfImage)
     IN  \/ ~fits /\ Abandon
         \/ /\ fits
            /\ local' = [p \in ImageCells(dll) |->
                           IF p \in Cells(s.address, s.rawSize)
                           THEN s.raw + (p - s.address) + 1 ELSE local[p]]
            /\ index' = index + 1
            /\ UNCHANGED <<mapStep, held, dll, base, remote, protection>>

\* The entries of one block. An entry that is not DIR64 is left alone. The check
\* adds the page and the offset as DWORDs, the write as parts of an address: a
\* target whose remainder lies in the image strays from it.
RelocateEntry(f, delta, page, r, entry) ==
  LET target == page + entry.offset
  IN  IF r.failed \/ entry.type # "DIR64" THEN r
      ELSE IF ~IsRangeWithin(target % DwordModulus, 1, f.sizeOfImage)
           THEN [r EXCEPT !.failed = TRUE]
      ELSE IF target \notin ImageCells(f) THEN [r EXCEPT !.strayed = TRUE]
      ELSE [r EXCEPT !.cells[target] = @ + delta]

RelocateEntries(f, delta, page, r, entries) ==
  LET Entry(q, entry) == RelocateEntry(f, delta, page, q, entry)
  IN  FoldLeft(Entry, r, entries)

\* Seeded fault: only the first block is relocated.
RelocateFirstBlock(f, delta, r, block) ==
  IF r.at > 0 THEN r
  ELSE [RelocateEntries(f, delta, block.page, r, block.entries)
          EXCEPT !.at = block.size]

\* One turn of the loop over the blocks; the header of a block is one unit.
RelocateBlock(f, delta, r, block) ==
  LET entries == SubSeq(block.entries, 1, block.size - 1)
  IN  IF r.failed \/ r.ended THEN r
      ELSE IF r.at + 1 > f.relocation.size \/ block.page = 0
           THEN [r EXCEPT !.ended = TRUE]
      ELSE IF block.size < 1 \/ r.at + block.size > f.relocation.size
           THEN [r EXCEPT !.failed = TRUE]
      ELSE [RelocateEntries(f, delta, block.page, r, entries)
              EXCEPT !.at = @ + block.size]

Relocations(f, delta, cells) ==
  LET Block(r, block) == RelocateBlock(f, delta, r, block)
      start == [cells |-> cells, at |-> 0, ended |-> FALSE, failed |-> FALSE,
                strayed |-> FALSE]
  IN  FoldLeft(Block, start, f.relocation.blocks)

\* A write that strays hits memory that is not there, and apiscope ends, or memory
\* of apiscope; what that does to it is not followed.
Relocate ==
  /\ mapStep = "copying" /\ index > Len(dll.sections)
  /\ LET delta == base - dll.imageBase
         r == Relocations(dll, delta, local)
         needed == delta # 0 /\ dll.relocation.size > 0
         inside == IsRangeWithin(dll.relocation.address, dll.relocation.cells,
                                 dll.sizeOfImage)
     IN  \/ needed /\ (~inside \/ r.failed) /\ Abandon
         \/ /\ needed /\ inside /\ r.strayed
            /\ mapStep' = "crashed"
            /\ UNCHANGED <<held, dll, base, index, memoryVars>>
         \/ /\ ~needed \/ (inside /\ ~r.failed)
            /\ local' = IF needed THEN r.cells ELSE local
            /\ mapStep' = "relocated"
            /\ UNCHANGED <<held, dll, base, index, remote, protection>>

WriteImage ==
  /\ mapStep = "relocated"
  /\ \/ MayFail("WriteProcessMemory") /\ Abandon
     \/ /\ remote' = local
        /\ mapStep' = "protecting" /\ index' = 1
        /\ UNCHANGED <<held, dll, base, local, protection>>

GetMemoryProtection(c) ==
  CASE "execute" \in c /\ "write" \in c -> "PAGE_EXECUTE_READWRITE"
    [] "execute" \in c /\ "write" \notin c /\ "read" \in c -> "PAGE_EXECUTE_READ"
    [] "execute" \in c /\ "write" \notin c /\ "read" \notin c -> "PAGE_EXECUTE"
    [] "execute" \notin c /\ "write" \in c -> "PAGE_READWRITE"
    [] "execute" \notin c /\ "write" \notin c /\ "read" \in c -> "PAGE_READONLY"
    [] OTHER -> "PAGE_NOACCESS"

ProtectSection ==
  /\ mapStep = "protecting" /\ index <= Len(dll.sections)
  /\ LET s == dll.sections[index]
         fits == IsRangeWithin(s.address, s.virtualSize, dll.sizeOfImage)
     IN  \/ /\ s.virtualSize > 0 /\ (~fits \/ MayFail("VirtualProtectEx"))
            /\ Abandon
         \/ /\ s.virtualSize > 0 => fits
            /\ protection' = [p \in ImageCells(dll) |->
                                IF p \in Cells(s.address, s.virtualSize)
                                THEN GetMemoryProtection(s.characteristics)
                                ELSE protection[p]]
            /\ index' = index + 1
            /\ UNCHANGED <<mapStep, held, dll, base, local, remote>>

FlushAndReturn ==
  /\ mapStep = "protecting" /\ index > Len(dll.sections)
  /\ \/ MayFail("FlushInstructionCache") /\ Abandon
     \/ /\ held' = held \ {"local", "buffer"}
        /\ Proceed("returned")

\* Every step of InjectDll but the first.
MapperStep ==
  \/ CheckFileSize \/ AllocateBuffer \/ ReadDll \/ AllocateRemote
  \/ AllocateLocal \/ CopySection \/ Relocate \/ WriteImage \/ ProtectSection
  \/ FlushAndReturn

----------------------------------------------------------------------------
(* Reading the image back *)

\* GetRemoteExport, as the offset of the export, NoAddress where it returns
\* nothing: the headers or a table cannot be read, the name is not among those
\* that can be, or its ordinal is out of range. A forwarder is no address either.
\* unread are the names that cannot be read in 256 bytes; they are passed over.
NoAddress == -1

\* Seeded fault: the place of a name is taken for its ordinal.
GetExportAtName(f, name, unread) ==
  LET at == SelectInSeq(f.names, LAMBDA n : n = name)
  IN  IF at \in 1..Len(f.functions) THEN f.functions[at] ELSE NoAddress

GetRemoteExport(f, name, unread) ==
  LET at == SelectInSeq(f.names, LAMBDA n : n = name /\ n \notin unread)
      offset == f.functions[f.ordinals[at]]
  IN  IF \/ at = 0 \/ f.ordinals[at] > Len(f.functions)
         \/ IsForwarder(f, offset)
      THEN NoAddress ELSE offset

----------------------------------------------------------------------------
(* Properties *)

MapSteps == {"idle", "opened", "sized", "allocated", "read", "reserved",
             "copying", "relocated", "protecting", "returned", "crashed"}

\* What the protections allow (external: winnt.h).
Rights(p) ==
  CASE p = "PAGE_EXECUTE_READWRITE" -> {"execute", "read", "write"}
    [] p = "PAGE_EXECUTE_READ" -> {"execute", "read"}
    [] p = "PAGE_EXECUTE" -> {"execute"}
    [] p = "PAGE_READWRITE" -> {"read", "write"}
    [] p = "PAGE_READONLY" -> {"read"}
    [] p = "PAGE_NOACCESS" -> {}

\* When InjectDll returns, every file handle and buffer has been given back, and
\* memory of the target is held exactly when its address is returned, whichever
\* of the calls failed (every early return of process_manager.cpp).
InjectAllOrNothing ==
  mapStep = "returned" => held = IF base = 0 THEN {} ELSE {"remote"}

\* What the linker of dll meant cell c of the image at base b to hold.
Meant(f, c, b) ==
  LET owner == {s \in ToSet(f.sections) : c \in Cells(s.address, s.rawSize)}
      content == IF owner # {}
                 THEN LET s == CHOOSE s \in owner : TRUE
                      IN  s.raw + (c - s.address) + 1
                 ELSE IF c < f.sizeOfHeaders THEN c + 1 ELSE 0
  IN  content + IF c \in f.pointers THEN b - f.imageBase ELSE 0

\* However far the table of f is followed, it lists no target outside the image.
TargetsInside(f) ==
  \A n \in 0..Len(f.relocation.blocks) :
    \A at \in [0..n -> 0..f.relocation.size] : IsTable(f, n, at) => ListsInside(f, n)

\* An address InjectDll returns is that of a complete image. Unless a relocation
\* target wraps in the check of ReflectiveDLLInject, every cell holds what the
\* file puts there, every pointer has been moved once, and a table that was
\* applied lists no target outside ("Invalid relocation target",
\* process_manager.cpp:340). Every section has the rights its header asks for,
\* where writing implies reading.
ImageComplete ==
  mapStep = "returned" /\ base # 0 =>
    /\ TargetsBelowWrap(dll) =>
         /\ \A c \in ImageCells(dll) : remote[c] = Meant(dll, c, base)
         /\ base = dll.imageBase \/ TargetsInside(dll)
    /\ \A s \in ToSet(dll.sections), c \in ImageCells(dll) :
         c \in Cells(s.address, s.virtualSize) =>
           Rights(protection[c])
             = s.characteristics \cup IF "write" \in s.characteristics
                                      THEN {"read"} ELSE {}
=============================================================================
