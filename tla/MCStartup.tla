------------------------------ MODULE MCStartup ------------------------------
(* Command lines, and hook DLLs that are sound or wrong in one place each. *)
EXTENDS Startup

Run1 == Word("run")
Module(file, dir, upper) == [dir |-> dir, upper |-> upper, file |-> file]
Ntdll == ModuleName(2)
Bcrypt == ModuleName(1)
Hook(m, export) == <<Word("--hook"), HookName(m, export)>>
All == <<Word("--hook"), Word("all")>>

OptionGroups ==
  {All, Hook(Ntdll, 1), Hook(Module(2, TRUE, TRUE), 1), Hook(Bcrypt, 7),
   <<Word("--hook"), Text(<<"a">>)>>, <<Word("--hook"), Wide>>,
   <<Word("--pid"), Number(<<4>>)>>, <<Word("--pid"), Number(<<0, 5>>)>>,
   <<Word("--pid"), Number(<<0>>)>>, <<Word("--pid"), Number(<<2, 6>>)>>,
   <<Word("--pid"), Text(<<"a">>)>>,
   <<Word("--format"), Word("jsonl")>>, <<Word("--format"), Word("auto")>>,
   <<Word("--output"), Text(<<"a">>)>>, <<Word("--output"), Empty>>,
   <<Word("--output")>>, <<Word("--quiet")>>,
   <<Word("--color"), Word("never")>>, <<Word("--color"), Word("text")>>,
   <<Word("--status"), Word("always")>>, <<Word("all")>>}

UpTo(n, S) == UNION {[1..k -> S] : k \in 0..n}
Options(n) == {FlattenSeq(o) : o \in UpTo(n, OptionGroups)}

Characters == {"a", Blank, Quote, Backslash}
Texts(n) == {Text(t) : t \in UpTo(n, Characters)}
Programs == {Text(<<"a">>), Text(<<"a", Blank, Backslash, "a">>)}

Targets ==
  {<<Word("--")>>} \cup {<<Word("--"), p>> : p \in Programs}
    \cup {<<Word("--"), p, Word("--quiet")>> : p \in Programs}

MCCommandLines ==
  {<<>>, <<Word("--help")>>, <<Word("--version")>>, <<Word("--list-hooks")>>,
   <<Word("--help"), Word("--version")>>, <<Word("all")>>}
    \cup {<<c>> \o o : c \in {Run1, Word("attach")}, o \in Options(3)}
    \cup {<<c>> \o o \o t : c \in {Run1, Word("attach")}, o \in Options(2),
                            t \in Targets}
    \cup {<<Run1>> \o All \o <<Word("--"), p, x, y>> :
            p \in Programs, x \in Texts(3), y \in Texts(2)}

\* Headers, code, constants with the export directory, data with one cell more
\* in memory than in the file, relocations.
Section(address, raw, rawSize, virtualSize, rights) ==
  [address |-> address, raw |-> raw, rawSize |-> rawSize,
   virtualSize |-> virtualSize, characteristics |-> rights]

Descriptor(m, export, handler, trampoline) ==
  [prefixed |-> TRUE, sound |-> TRUE, module |-> m, export |-> export,
   handler |-> handler, trampoline |-> trampoline]

Other == [Descriptor(Ntdll, 9, "none", "none") EXCEPT !.prefixed = FALSE]

Block(page, size, entries) == [page |-> page, size |-> size, entries |-> entries]
Entry(type, offset) == [type |-> type, offset |-> offset]

Sound ==
  [loads |-> TRUE, headers |-> TRUE,
   exports |-> <<Descriptor(Ntdll, 2, "ReadHook", "ReadOriginal"),
                 Other,
                 Descriptor(Module(2, FALSE, TRUE), 1, "OpenHook", "OpenOriginal")>>,
   names |-> <<"OpenHook", "OpenOriginal", "ReadHook", "ReadOriginal">>,
   ordinals |-> <<2, 3, 1, 4>>,
   functions |-> <<1, 2, 5, 6>>,
   procedures |-> {"OpenHook", "OpenOriginal", "ReadHook", "ReadOriginal"},
   places |-> [OpenHook |-> 2, OpenOriginal |-> 5,
               ReadHook |-> 1, ReadOriginal |-> 6],
   exportDirectory |-> [address |-> 4, cells |-> 1],
   size |-> 7, dosHeaderSize |-> 1, dosMagic |-> TRUE, lfanew |-> 0,
   ntHeadersSize |-> 1, ntSignature |-> TRUE, optionalMagic |-> TRUE,
   sectionHeaderSize |-> 1,
   sizeOfImage |-> 8, sizeOfHeaders |-> 1, imageBase |-> 100,
   sections |-> <<Section(1, 1, 2, 2, {"execute", "read"}),
                  Section(3, 3, 2, 2, {"read"}),
                  Section(5, 5, 1, 2, {"write"}),
                  Section(7, 6, 1, 1, {"read"})>>,
   pointers |-> {3, 4, 5},
   relocation |->
     [address |-> 7, cells |-> 1, size |-> 6,
      blocks |-> <<Block(3, 4, <<Entry("DIR64", 0), Entry("DIR64", 1),
                                 Entry("ABSOLUTE", 0)>>),
                   Block(5, 2, <<Entry("DIR64", 0)>>)>>]]

BadDescriptors ==
  {[Sound EXCEPT !.loads = FALSE], [Sound EXCEPT !.headers = FALSE],
   [Sound EXCEPT !.exports[3].sound = FALSE],
   [Sound EXCEPT !.exports[3].export = 2],
   [Sound EXCEPT !.exports[3].trampoline = "none"]}

\* With 16 cells to a DWORD the second target, 21, is taken for cell 5.
Wrapping ==
  [Sound EXCEPT !.relocation.blocks[2] = Block(15, 2, <<Entry("DIR64", 6)>>)]

BadImages ==
  {[Sound EXCEPT !.size = 0], [Sound EXCEPT !.dosHeaderSize = 9],
   [Sound EXCEPT !.dosMagic = FALSE], [Sound EXCEPT !.lfanew = 7],
   [Sound EXCEPT !.lfanew = -1], [Sound EXCEPT !.ntSignature = FALSE],
   [Sound EXCEPT !.optionalMagic = FALSE],
   [Sound EXCEPT !.sectionHeaderSize = 2],
   [Sound EXCEPT !.sizeOfImage = 0], [Sound EXCEPT !.sizeOfHeaders = 8],
   [Sound EXCEPT !.sections[4].raw = 7], [Sound EXCEPT !.sections[4].address = 8],
   [Sound EXCEPT !.sections[4].virtualSize = 2],
   [Sound EXCEPT !.sections[4].virtualSize = 0],
   [Sound EXCEPT !.relocation.address = 8],
   [Sound EXCEPT !.relocation.blocks[1].size = 0],
   [Sound EXCEPT !.relocation.blocks[2] =
     Block(5, 3, <<Entry("DIR64", 0), Entry("ABSOLUTE", 0)>>)],
   [Sound EXCEPT !.relocation.blocks[2].page = 8],
   [Sound EXCEPT !.relocation.blocks = Append(@, Block(0, 0, <<>>))],
   [Sound EXCEPT !.relocation.size = 0, !.pointers = {}],
   [Sound EXCEPT !.ordinals[1] = 5],
   [Sound EXCEPT !.functions[1] = 4],
   [Sound EXCEPT !.exportDirectory.cells = 13]}

MCDllFiles == {Sound, Wrapping} \cup BadDescriptors \cup BadImages
=============================================================================
