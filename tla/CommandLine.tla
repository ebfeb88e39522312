----------------------------- MODULE CommandLine -----------------------------
(***************************************************************************)
(* ParseCommandLine and BuildWindowsCommandLine                            *)
(* (src/apiscope/cli_options.cpp).                                         *)
(*                                                                         *)
(* An argument is a Word (a command, an option or one of the fixed values; *)
(* the short spelling of an option is the same Word), a Number, a HookName *)
(* or a Text of characters. Every error message is one and the same Error: *)
(* main.cpp prints it and stops.                                           *)
(***************************************************************************)
EXTENDS HookRegistry

CONSTANT MaxProcessId      \* UINT32_MAX

ASSUME CommandLineAssumption == MaxProcessId \in Nat \ {0}

Word(w) == [kind |-> "word", word |-> w]
Number(digits) == [kind |-> "number", digits |-> digits]
HookName(module, export) ==
  [kind |-> "hook", module |-> module, export |-> export]
Text(chars) == [kind |-> "text", chars |-> chars]
\* A text with a character that is not ASCII.
Wide == [kind |-> "wide"]
Empty == Text(<<>>)

\* What a command line consists of.
Arguments ==
  [kind : {"word"}, word : STRING] \cup [kind : {"number"}, digits : Seq(0..9)]
    \cup [kind : {"hook"}, module : ModuleNames, export : Nat]
    \cup [kind : {"text"}, chars : Seq(STRING)] \cup {Wide}

\* NarrowHookName and the test of its result for emptiness.
IsNarrow(a) == a # Wide /\ a # Empty

\* Seeded fault: no limit, as with a conversion that does not check its range.
ParseAnyNumber(a) ==
  LET Digit(parsed, d) == parsed * 10 + d
  IN  IF a.kind # "number" THEN 0 ELSE FoldLeft(Digit, 0, a.digits)

\* 0 where ParseProcessId fails. A digit that takes the value past the largest
\* id is not followed by others, so the value never leaves 64 bits.
ParseProcessId(a) ==
  LET Digit(parsed, d) ==
        IF parsed > MaxProcessId THEN parsed ELSE parsed * 10 + d
      parsed == FoldLeft(Digit, 0, a.digits)
  IN  IF a.kind # "number" \/ parsed > MaxProcessId THEN 0 ELSE parsed

----------------------------------------------------------------------------
(* Hook selection *)

AddHook(hooks, hook) ==
  IF \E h \in ToSet(hooks) : h.canonicalName = hook.canonicalName THEN hooks
  ELSE Append(hooks, hook)

\* The hooks one --hook value stands for: none where the value is not "all",
\* not module!export, or names a hook the DLL does not have.
Expand(available, requested) ==
  CASE requested = Word("all") -> available
    [] requested.kind = "hook" ->
         FindSupportedHook(available,
                           CanonicalName(requested.module, requested.export))
    [] OTHER -> <<>>

\* "all" of an empty list is no error by itself.
IsExpandable(available, requested) ==
  requested = Word("all") \/ Expand(available, requested) # <<>>

AddHooks(available, hooks, requested) ==
  FoldLeft(AddHook, hooks, Expand(available, requested))

\* The selected hooks, <<>> where ExpandAndValidateHooks returns false.
ExpandAndValidateHooks(available, requestedHooks) ==
  IF \E r \in ToSet(requestedHooks) : ~IsExpandable(available, r) THEN <<>>
  ELSE LET Add(hooks, requested) == AddHooks(available, hooks, requested)
       IN  FoldLeft(Add, <<>>, requestedHooks)

----------------------------------------------------------------------------
(* ParseCommandLine *)

DefaultOptions ==
  [mode |-> "Error", hooks |-> <<>>, targetArguments |-> <<>>,
   targetProcessId |-> 0, format |-> "text", outputPath |-> Empty,
   quiet |-> FALSE, color |-> "auto", status |-> "auto"]

\* Where no option waits for its value.
NoOption == [kind |-> "none"]

\* The scan: the option that waits for its value, and what it has collected.
ScanInit ==
  [at |-> "option", option |-> NoOption, requestedHooks |-> <<>>,
   formatSpecified |-> FALSE, options |-> DefaultOptions]

Fail(s) == [s EXCEPT !.at = "failed"]

WithValue == {Word("--pid"), Word("--hook"), Word("--format"),
              Word("--output"), Word("--color"), Word("--status")}

\* Where an option is expected.
TakeOption(attach, s, a) ==
  CASE a = Word("--") /\ ~attach -> [s EXCEPT !.at = "target"]
    [] a \in WithValue /\ (attach \/ a # Word("--pid")) ->
         [s EXCEPT !.at = "value", !.option = a]
    [] a = Word("--quiet") -> [s EXCEPT !.options.quiet = TRUE]
    [] OTHER -> Fail(s)

\* Where the value of s.option is expected; any argument is taken for it.
TakeValue(s, a) ==
  LET next == [s EXCEPT !.at = "option", !.option = NoOption]
      Modes == {Word("auto"), Word("always"), Word("never")}
  IN  CASE s.option = Word("--pid") /\ ParseProcessId(a) # 0 ->
             [next EXCEPT !.options.targetProcessId = ParseProcessId(a)]
        [] s.option = Word("--hook") /\ IsNarrow(a) ->
             [next EXCEPT !.requestedHooks = Append(@, a)]
        [] s.option = Word("--format") /\ a \in {Word("text"), Word("jsonl")} ->
             [next EXCEPT !.options.format = a.word, !.formatSpecified = TRUE]
        [] s.option = Word("--output") -> [next EXCEPT !.options.outputPath = a]
        [] s.option = Word("--color") /\ a \in Modes ->
             [next EXCEPT !.options.color = a.word]
        [] s.option = Word("--status") /\ a \in Modes ->
             [next EXCEPT !.options.status = a.word]
        [] OTHER -> Fail(s)

ScanArgument(attach, s, a) ==
  CASE s.at = "option" -> TakeOption(attach, s, a)
    [] s.at = "value" -> TakeValue(s, a)
    [] s.at = "target" -> [s EXCEPT !.options.targetArguments = Append(@, a)]
    [] s.at = "failed" -> s

\* Seeded fault: "--" with nothing behind it is accepted.
HasTargetMarker(attach, s) ==
  IF attach THEN s.at = "option" /\ s.options.targetProcessId # 0
  ELSE s.at = "target"

\* An attach with a process id, or a run with a program.
HasTarget(attach, s) ==
  IF attach THEN s.at = "option" /\ s.options.targetProcessId # 0
  ELSE s.at = "target" /\ s.options.targetArguments # <<>>

ScanArguments(attach, arguments) ==
  LET Scan(s, a) == ScanArgument(attach, s, a)
  IN  FoldLeft(Scan, ScanInit, arguments)

ParseCommand(attach, arguments, available) ==
  LET s == ScanArguments(attach, arguments)
      hooks == ExpandAndValidateHooks(available, s.requestedHooks)
  IN  IF /\ HasTarget(attach, s)
         /\ s.formatSpecified \/ s.options.quiet
              => s.options.outputPath # Empty
         /\ hooks # <<>>
      THEN [s.options EXCEPT !.mode = IF attach THEN "Attach" ELSE "Run",
                             !.hooks = hooks]
      ELSE DefaultOptions

\* argv is what follows the name of the program.
ParseCommandLine(argv, available) ==
  CASE argv = <<Word("--list-hooks")>> ->
         [DefaultOptions EXCEPT !.mode = "ListHooks"]
    [] argv \in {<<>>, <<Word("--help")>>} ->
         [DefaultOptions EXCEPT !.mode = "Help"]
    [] argv = <<Word("--version")>> ->
         [DefaultOptions EXCEPT !.mode = "Version"]
    [] argv # <<>> /\ Head(argv) \in {Word("run"), Word("attach")} ->
         ParseCommand(Head(argv) = Word("attach"), Tail(argv), available)
    [] OTHER -> DefaultOptions

----------------------------------------------------------------------------
(* The target's command line *)

Blank == " "
Quote == "\""
Backslash == "\\"

\* Options and names of hooks consist of ordinary characters.
CharsOf(a) == IF a.kind = "text" THEN a.chars ELSE <<"a">>

\* What can be the path of a program: no name has a quote in it, and what ends in
\* a backslash is a directory.
IsFileName(chars) ==
  /\ Quote \notin ToSet(chars)
  /\ chars # <<>> => chars[Len(chars)] # Backslash

Slashes(n) == [i \in 1..n |-> Backslash]

\* Seeded fault: the backslashes in front of the closing quote stay single.
QuoteSingleSlashes(chars) ==
  IF chars # <<>> /\ ToSet(chars) \cap {Blank, Quote} = {} THEN chars
  ELSE <<Quote>> \o chars \o <<Quote>>

\* One character: backslashes are counted until it is known what is behind them.
QuoteCharacter(q, c) ==
  IF c = Backslash THEN [q EXCEPT !.slashes = @ + 1]
  ELSE [out |-> q.out \o Slashes(IF c = Quote THEN q.slashes * 2 + 1
                                 ELSE q.slashes) \o <<c>>,
        slashes |-> 0]

QuoteInit == [out |-> <<Quote>>, slashes |-> 0]

QuoteWindowsArgument(chars) ==
  IF chars # <<>> /\ ToSet(chars) \cap {Blank, Quote} = {} THEN chars
  ELSE LET q == FoldLeft(QuoteCharacter, QuoteInit, chars)
       IN  q.out \o Slashes(q.slashes * 2) \o <<Quote>>

JoinArgument(line, a) ==
  (IF line = <<>> THEN line ELSE line \o <<Blank>>)
    \o QuoteWindowsArgument(CharsOf(a))

BuildWindowsCommandLine(arguments) == FoldLeft(JoinArgument, <<>>, arguments)

----------------------------------------------------------------------------
(* How the C runtime of a target takes its command line apart *)

\* The program's own name ends at a blank outside quotes; a quote opens or
\* closes quotes, a backslash is an ordinary character.
SplitName(w, c) ==
  CASE c = Quote -> [w EXCEPT !.quoted = ~@]
    [] c = Blank /\ ~w.quoted -> [w EXCEPT !.at = "between", !.quoted = FALSE]
    [] OTHER -> [w EXCEPT !.argv = <<Append(@[1], c)>>]

\* The argument in progress goes on with chars; n of the backslashes counted
\* turn out to be characters of it.
PutChars(w, chars) == [w EXCEPT !.argv[Len(w.argv)] = @ \o chars]

PutSlashes(w, n) == [PutChars(w, Slashes(n)) EXCEPT !.slashes = 0, !.closed = FALSE]

\* In an argument 2n backslashes and a quote are n backslashes and a quote that
\* opens or closes; one backslash more makes the quote a character. A quote
\* right behind a closing quote is a character too.
SplitArgument(w, c) ==
  CASE c = Backslash -> [w EXCEPT !.slashes = @ + 1, !.closed = FALSE]
    [] c = Quote /\ w.slashes % 2 = 1 ->
         PutChars(PutSlashes(w, w.slashes \div 2), <<Quote>>)
    [] c = Quote /\ w.slashes % 2 = 0 /\ w.closed ->
         [PutChars(w, <<Quote>>) EXCEPT !.closed = FALSE, !.quoted = TRUE]
    [] c = Quote /\ w.slashes % 2 = 0 /\ ~w.closed ->
         [PutSlashes(w, w.slashes \div 2) EXCEPT !.quoted = ~@, !.closed = w.quoted]
    [] c = Blank /\ ~w.quoted ->
         [PutSlashes(w, w.slashes) EXCEPT !.at = "between"]
    [] OTHER -> PutChars(PutSlashes(w, w.slashes), <<c>>)

SplitCharacter(w, c) ==
  CASE w.at = "name" -> SplitName(w, c)
    [] w.at = "between" ->
         IF c = Blank THEN w
         ELSE SplitArgument([w EXCEPT !.at = "argument",
                                      !.argv = Append(@, <<>>)], c)
    [] w.at = "argument" -> SplitArgument(w, c)

SplitInit ==
  [at |-> "name", argv |-> <<(<<>>)>>, quoted |-> FALSE, closed |-> FALSE,
   slashes |-> 0]

SplitCommandLine(line) ==
  LET w == FoldLeft(SplitCharacter, SplitInit, line)
  IN  IF w.slashes = 0 THEN w.argv ELSE PutChars(w, Slashes(w.slashes)).argv
=============================================================================
