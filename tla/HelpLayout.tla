----------------------------- MODULE HelpLayout ------------------------------
(***************************************************************************)
(* HelpLayout: clap_print_help writes the usage line, the paragraphs and   *)
(* the rows of the sections to one growing buffer, a word at a time        *)
(* (clap_formatter.c, clap_buffer.c, clap_color.c).  A text is the         *)
(* sequence of its words and a word is its columns and its bytes, which    *)
(* differ when it is coloured.  Which rows a parser has is in              *)
(* HelpSections; here they come in the order of the sections.              *)
(*                                                                         *)
(* The strings of an argument (build_opt_str, build_arg_help) are made in  *)
(* buffers of their own, whose growth does not fail here.                  *)
(***************************************************************************)
EXTENDS Integers, Sequences, FiniteSets, SequencesExt

CONSTANTS
    Page,         \* the parsers whose help is printed, as the formatter sees them
    Width,        \* the arguments of clap_parser_set_help_width
    Environment,  \* what clap_color_theme_detect finds: four variables and a terminal
    MaxFailures   \* bound: the allocations of a help that fail

(***************************************************************************)
(* A parser as the formatter sees it.  Names, words and the other strings  *)
(* are their lengths, a text is its words; 0 and the empty text stand for  *)
(* a NULL.  An option has a flag, as clap_add_argument takes an argument   *)
(* without one for a positional.                                           *)
(***************************************************************************)
Text == Seq(Nat)

Argument ==
    [positional : BOOLEAN, grouped : BOOLEAN, exclusive : BOOLEAN, required : BOOLEAN,
     valued : BOOLEAN, deprecated : BOOLEAN, action : {"HELP", "VERSION", "OTHER"},
     options : Seq([len : Nat, short : BOOLEAN]), nargs : Int, name : Nat, metavar : Nat,
     dest : Nat, default : Nat, choices : Text, help : Text, message : Text]

Positional == {arg \in Argument : arg.positional}
Optional == {arg \in Argument : arg.options # << >>}

Parser ==
    [prog : Nat, usage : Nat, addHelp : BOOLEAN, description : Text, epilog : Text,
     positionals : Seq(Positional), optionals : Seq(Optional), exclusive : Seq(Seq(Optional)),
     groups : Seq([title : Nat, description : Text, args : Seq(Positional \cup Optional)]),
     commands : Seq([name : Nat, description : Text]), subparserMetavar : Nat]

ASSUME HelpLayoutAssumption ==
    Page \subseteq Parser /\ Width \subseteq Int /\ MaxFailures \in Nat

\* The bytes of an escape sequence, by colour key, and of the one that ends it.
CodeBytes == [PROG |-> 4, HEADING |-> 4, SHORT |-> 5, LONG |-> 5, METAVAR |-> 5,
              CHOICES |-> 5, DEFAULT |-> 4, COMMAND |-> 5]
ResetBytes == 4
MetavarSize == 64    \* upper_metavar of build_usage_line

ZERO_OR_ONE == -3
ZERO_OR_MORE == -4
ONE_OR_MORE == -5
REMAINDER == -1

VARIABLES
    page,      \* the parser
    width,     \* its help_width
    color,     \* its color_theme.enabled
    phase,     \* "idle", "printing", "printed", or "crashed" on a NULL buffer
    todo,      \* the calls that clap_print_help has still to make
    text,      \* the wrap_text under way
    buf,       \* the buffer: alloc, len, and what it holds, as lines
    metavar,   \* history: the last index of upper_metavar written to
    failures   \* history: the allocations that failed

vars == <<page, width, color, phase, todo, text, buf, metavar, failures>>

-----------------------------------------------------------------------------
(***************************************************************************)
(* What is written: strings of some columns and bytes, and line feeds.  A  *)
(* string is a word of a text laid out from some indent, or no word.       *)
(***************************************************************************)
Newline == [newline |-> TRUE, cols |-> 0, bytes |-> 1, words |-> 0, indent |-> 0, rest |-> 0]
Str(s) == [Newline EXCEPT !.newline = FALSE, !.cols = s.cols, !.bytes = s.bytes]
Plain(n) == [cols |-> n, bytes |-> n]
WordOf(s, indent) == [Str(s) EXCEPT !.words = 1, !.indent = indent]
Pad(n) == [i \in 1..n |-> Str(Plain(1))]

\* clap_buffer_cat_colored, where every call succeeds.
Painted(key, n) ==
    [cols |-> n, bytes |-> IF color /\ n > 0 THEN CodeBytes[key] + n + ResetBytes ELSE n]

\* The same as pieces: the rest of them is left out with the first that fails.
PaintedPieces(key, n) ==
    IF color /\ n > 0
    THEN <<[Str([cols |-> 0, bytes |-> CodeBytes[key]]) EXCEPT !.rest = 2],
           [Str(Plain(n)) EXCEPT !.rest = 1],
           Str([cols |-> 0, bytes |-> ResetBytes])>>
    ELSE <<Str(Plain(n))>>

Beside(s, t) == [cols |-> s.cols + t.cols, bytes |-> s.bytes + t.bytes]
Joined(strings) == FoldLeft(Beside, Plain(0), strings)

\* The strings with separators of n columns between them.
Separated(strings, n) ==
    Joined([i \in DOMAIN strings |-> IF i = 1 THEN strings[i] ELSE Beside(Plain(n), strings[i])])

\* Mutation for BuffersHold: the terminator is left out.
NeedsRoomNone(b, n) == b.len + n > b.alloc

NeedsRoom(b, n) == b.len + n + 1 > b.alloc

LargerOf(a, b) == IF a > b THEN a ELSE b
SmallerOf(a, b) == IF a < b THEN a ELSE b

\* clap_buffer_grow
Grown(b, n) ==
    IF NeedsRoom(b, n) THEN [b EXCEPT !.alloc = LargerOf(2 * @, b.len + n + 1)] ELSE b

\* A line: its columns, its words of text, and the column they should begin and do begin at.
NoLine == [cols |-> 0, words |-> 0, indent |-> 0, start |-> 0]

\* clap_buffer_cat
Cat(b, piece) ==
    LET last == b.lines[Len(b.lines)]
    IN  [Grown(b, piece.bytes) EXCEPT
           !.len = @ + piece.bytes,
           !.lines = IF piece.newline THEN Append(@, NoLine)
                     ELSE [@ EXCEPT ![Len(b.lines)] =
                             IF piece.words = 1 /\ last.words = 0
                             THEN [cols |-> last.cols + piece.cols, words |-> 1,
                                   indent |-> piece.indent, start |-> last.cols]
                             ELSE [last EXCEPT !.cols = @ + piece.cols, !.words = @ + piece.words]]]

Cats(b, pieces) == FoldLeft(Cat, b, pieces)

\* clap_buffer_empty
EmptyBuffer == [alloc |-> 1, len |-> 0, lines |-> <<NoLine>>]

(***************************************************************************)
(* The pieces are written one by one; no caller looks at what a call       *)
(* returns, so a piece for which the buffer cannot grow is left out (with  *)
(* the rest of a coloured string).                                         *)
(***************************************************************************)
Write(pieces) ==
    \/ /\ buf' = Cats(buf, pieces)
       /\ UNCHANGED failures
    \/ /\ failures < MaxFailures
       /\ \E i \in DOMAIN pieces :
            LET before == Cats(buf, SubSeq(pieces, 1, i - 1))
            IN  /\ NeedsRoom(before, pieces[i].bytes)
                /\ buf' = Cats(before, SubSeq(pieces, i + 1 + pieces[i].rest, Len(pieces)))
       /\ failures' = failures + 1

-----------------------------------------------------------------------------
(***************************************************************************)
(* The strings of an argument.                                             *)
(***************************************************************************)
OptKey(opt) == IF opt.short THEN "SHORT" ELSE "LONG"
HasPlaceholder(arg) == arg.nargs > 0 /\ arg.valued   \* valued: action_requires_value

\* build_opt_str
OptString(arg) ==
    LET names == Separated([i \in DOMAIN arg.options |->
                               Painted(OptKey(arg.options[i]), arg.options[i].len)], 2)
        choices == Separated([i \in DOMAIN arg.choices |-> Painted("CHOICES", arg.choices[i])], 1)
        brace == Painted("CHOICES", 1)
    IN  CASE arg.metavar # 0 -> Joined(<<names, Plain(1), Painted("METAVAR", arg.metavar)>>)
          [] arg.metavar = 0 /\ arg.choices # << >> ->
                 Joined(<<names, Plain(1), brace, choices, brace>>)
          [] arg.metavar = 0 /\ arg.choices = << >> /\ HasPlaceholder(arg) ->
                 Joined(<<names, Plain(1), Painted("METAVAR", arg.dest)>>)
          [] OTHER -> names

Total(lengths) == FoldLeft(LAMBDA a, b : a + b, 0, lengths)

\* get_option_display_length, which builds nothing.
DisplayLength(arg) ==
    LET names == 2 * (Len(arg.options) - 1)
                   + Total([i \in DOMAIN arg.options |-> arg.options[i].len])
    IN  CASE arg.metavar # 0 -> names + 1 + arg.metavar
          [] arg.metavar = 0 /\ arg.choices # << >> ->
                 names + 2 + (Len(arg.choices) - 1) + Total(arg.choices) + 1
          [] arg.metavar = 0 /\ arg.choices = << >> /\ HasPlaceholder(arg) -> names + 1 + arg.dest
          [] OTHER -> names

Words(lengths) == [i \in DOMAIN lengths |-> Plain(lengths[i])]

\* The last of the words has s right behind it.
Closed(words, s) == [words EXCEPT ![Len(words)] = Beside(@, s)]

\* build_arg_help: the help, "(deprecated: message)", "(choices: a, b)", "(default: a)".
HelpWords(arg) ==
    Words(arg.help)
      \o (CASE ~arg.deprecated -> << >>
            [] arg.deprecated /\ arg.message = << >> -> Words(<<12>>)
            [] arg.deprecated /\ arg.message # << >> ->
                   Closed(Words(<<12>> \o arg.message), Plain(1)))
      \o (IF arg.choices = << >> THEN << >>
          ELSE Words(<<9>>) \o [i \in DOMAIN arg.choices |->
                                  Beside(Painted("CHOICES", arg.choices[i]), Plain(1))])
      \o (IF arg.default = 0 THEN << >>
          ELSE Words(<<9>>) \o <<Beside(Painted("DEFAULT", arg.default), Plain(1))>>)

(***************************************************************************)
(* get_upper_metavar: the index of the terminating zero.  The choices are  *)
(* cut so that the brace and the zero still fit.                           *)
(***************************************************************************)
UpperMetavar(arg) ==
    IF arg.choices # << >>
    THEN 1 + FoldLeft(LAMBDA pos, i :
                         IF pos >= MetavarSize - 2 THEN pos
                         ELSE LET start == IF i > 1 THEN pos + 1 ELSE pos
                              IN  LargerOf(start, SmallerOf(start + arg.choices[i], MetavarSize - 2)),
                      1, [i \in DOMAIN arg.choices |-> i])
    ELSE SmallerOf(IF arg.metavar # 0 THEN arg.metavar ELSE arg.dest, MetavarSize - 1)

UsageValued(arg) == arg.nargs # 0 /\ arg.valued
FirstOption(arg) == Painted(OptKey(arg.options[1]), arg.options[1].len)
UsageValue(arg) == IF UsageValued(arg) THEN Painted("METAVAR", UpperMetavar(arg)) ELSE Plain(0)
Spaces(arg) == Plain(IF UsageValued(arg) THEN 1 ELSE 0)

(***************************************************************************)
(* build_usage_line, which is not wrapped: the options in no group, as     *)
(* " opt METAVAR", with brackets if it is optional and around an optional  *)
(* value that has a default; the groups, " [a | b]" or " (a | b)"; the     *)
(* positionals; the commands.                                              *)
(***************************************************************************)
UsageOf(arg) ==
    LET inner == IF UsageValued(arg) /\ arg.nargs = ZERO_OR_ONE /\ arg.default # 0 THEN 2 ELSE 0
        outer == IF arg.required THEN 0 ELSE 2
    IN  CASE arg.action = "HELP" -> << >>
          [] arg.action = "VERSION" -> <<Str(Plain(12))>>
          [] OTHER -> <<Str(Joined(<<Plain(1 + outer + inner), FirstOption(arg), Spaces(arg),
                                     UsageValue(arg)>>))>>

UsageGroup(args) ==
    IF args = << >> THEN << >>
    ELSE <<Str(Beside(Plain(3), Separated([i \in DOMAIN args |->
                 Joined(<<FirstOption(args[i]), Spaces(args[i]), UsageValue(args[i])>>)], 3)))>>

UsagePositional(arg) ==
    Str(Plain(CASE arg.nargs = ZERO_OR_MORE -> arg.name + 7
                [] arg.nargs = ONE_OR_MORE -> 2 * arg.name + 8
                [] arg.nargs = ZERO_OR_ONE -> arg.name + 3
                [] arg.nargs = REMAINDER -> 4
                [] OTHER -> arg.name + 1))

UsageCommands ==
    IF page.commands = << >> THEN << >>
    ELSE IF page.subparserMetavar # 0 THEN <<Str(Plain(page.subparserMetavar + 5))>>
    ELSE <<Str(Plain(2))>>
           \o FlattenSeq([i \in DOMAIN page.commands |->
                (IF i > 1 THEN <<Str(Plain(1))>> ELSE << >>)
                  \o PaintedPieces("COMMAND", page.commands[i].name)])
           \o <<Str(Plain(5))>>

Ungrouped(arg) == ~arg.exclusive

UsagePieces ==
    IF page.usage # 0 THEN <<Str(Plain(page.usage)), Newline>>
    ELSE <<Str(Plain(7))>> \o PaintedPieces("PROG", page.prog)
           \o (IF page.addHelp THEN <<Str(Plain(5))>> ELSE << >>)
           \o FlattenSeq([i \in DOMAIN page.optionals |->
                IF Ungrouped(page.optionals[i]) THEN UsageOf(page.optionals[i]) ELSE << >>])
           \o FlattenSeq([i \in DOMAIN page.exclusive |-> UsageGroup(page.exclusive[i])])
           \o [i \in DOMAIN page.positionals |-> UsagePositional(page.positionals[i])]
           \o UsageCommands \o <<Newline>>

\* Whose value the usage line names, and the last index of upper_metavar this writes to.
UsageValues ==
    IF page.usage # 0 THEN {}
    ELSE {arg \in {a \in ToSet(page.optionals) : Ungrouped(a)}
                     \cup UNION {ToSet(page.exclusive[i]) : i \in DOMAIN page.exclusive} :
             arg.action \notin {"HELP", "VERSION"} /\ UsageValued(arg)}

LastWritten ==
    LET ends == {UpperMetavar(arg) : arg \in UsageValues} \cup {0}
    IN  CHOOSE m \in ends : \A n \in ends : n <= m

-----------------------------------------------------------------------------
(***************************************************************************)
(* The calls clap_print_help makes.                                        *)
(***************************************************************************)
Paragraph(words) == IF words = << >> THEN << >> ELSE <<[call |-> "paragraph", words |-> Words(words)]>>

\* A heading: a line feed, the coloured title, n more columns, and a line feed.
Heading(title, n) ==
    <<[call |-> "heading",
       pieces |-> <<Newline>> \o PaintedPieces("HEADING", title)
                    \o (IF n = 0 THEN <<Newline>> ELSE <<Str(Plain(n)), Newline>>)]>>

\* A row: what is printed of the name, what its length is taken to be, the words of
\* the help, and whether a buffer that is NULL for want of memory is written to.
Row(name, length, words, builds) ==
    <<[call |-> "row", name |-> name, length |-> length, words |-> words, builds |-> builds]>>

ArgumentRow(arg) ==
    IF arg.positional
    THEN Row(Plain(arg.name), arg.name, HelpWords(arg), HelpWords(arg) # << >>)
    ELSE Row(OptString(arg), DisplayLength(arg), HelpWords(arg), TRUE)

Rows(args) == FlattenSeq([i \in DOMAIN args |-> IF args[i].grouped THEN << >> ELSE ArgumentRow(args[i])])

PositionalsSection ==
    IF page.positionals = << >> THEN << >> ELSE Heading(21, 0) \o Rows(page.positionals)

OptionalsSection ==
    IF Rows(page.optionals) = << >> THEN << >> ELSE Heading(19, 0) \o Rows(page.optionals)

\* print_display_groups_sections
GroupSection(group) ==
    IF group.args = << >> THEN << >>
    ELSE Heading(group.title, 1)
           \o (IF group.description = << >> THEN << >>
               ELSE <<[call |-> "intro", words |-> Words(group.description)]>>)
           \o FlattenSeq([i \in DOMAIN group.args |-> ArgumentRow(group.args[i])])

CommandsSection ==
    IF page.commands = << >> THEN << >>
    ELSE Heading(9, 0)
           \o FlattenSeq([i \in DOMAIN page.commands |->
                            LET c == page.commands[i]
                            IN  Row(Painted("COMMAND", c.name), c.name, Words(c.description), TRUE)])

\* The calls after the usage line.
Sections ==
    Paragraph(page.description) \o PositionalsSection \o OptionalsSection
      \o FlattenSeq([i \in DOMAIN page.groups |-> GroupSection(page.groups[i])])
      \o CommandsSection \o Paragraph(page.epilog)

\* calc_max_name_len
MaxNameLen ==
    LET lengths == {page.positionals[i].name : i \in DOMAIN page.positionals}
                     \cup {DisplayLength(page.optionals[i]) : i \in DOMAIN page.optionals}
                     \cup {page.commands[i].name : i \in DOMAIN page.commands} \cup {0}
        longest == CHOOSE n \in lengths : \A m \in lengths : m <= n
        allowed == LargerOf(20, width \div 2)
    IN  LargerOf(10, SmallerOf(longest, allowed))

-----------------------------------------------------------------------------
NoText == [words |-> << >>, indent |-> 0, lineLen |-> 0, onFirst |-> FALSE, active |-> FALSE]

Wrapping(words, indent, onFirst) ==
    [words |-> words, indent |-> indent, lineLen |-> 0, onFirst |-> onFirst, active |-> TRUE]

Init ==
    /\ page \in Page /\ width = 100 /\ color = FALSE
    /\ phase = "idle" /\ todo = << >> /\ text = NoText /\ buf = EmptyBuffer
    /\ metavar = 0 /\ failures = 0

\* clap_parser_set_help_width
SetHelpWidth(w) ==
    /\ phase = "idle"
    /\ width' = IF w >= 40 /\ w <= 500 THEN w ELSE width
    /\ UNCHANGED <<page, color, phase, todo, text, buf, metavar, failures>>

\* clap_color_theme_detect.  A variable is "" if it is not set.
Detected(env) ==
    IF env.NO_COLOR # "" THEN FALSE
    ELSE IF env.FORCE_COLOR # "" THEN TRUE
    ELSE IF env.CLICOLOR = "0" THEN FALSE
    ELSE IF env.CLICOLOR_FORCE \notin {"", "0"} THEN TRUE
    ELSE env.tty

\* clap_parser_set_color
SetColor(enable, env) ==
    /\ phase = "idle"
    /\ color' = (enable /\ Detected(env))
    /\ UNCHANGED <<page, width, phase, todo, text, buf, metavar, failures>>

\* clap_print_help: the buffer and the usage line.
PrintHelp ==
    /\ phase = "idle"
    /\ Write(UsagePieces)
    /\ phase' = "printing" /\ todo' = Sections
    /\ metavar' = LastWritten
    /\ UNCHANGED <<page, width, color, text>>

(***************************************************************************)
(* clap_buffer_empty returns NULL, for the help or for the strings of a    *)
(* row, and what is appended to it is written through the null pointer.    *)
(***************************************************************************)
CrashOnNull ==
    /\ failures < MaxFailures
    /\ \/ phase = "idle"
       \/ phase = "printing" /\ ~text.active /\ todo # << >>
            /\ Head(todo).call = "row" /\ Head(todo).builds
    /\ phase' = "crashed" /\ failures' = failures + 1
    /\ UNCHANGED <<page, width, color, todo, text, buf, metavar>>

Calls(call) == phase = "printing" /\ ~text.active /\ todo # << >> /\ Head(todo).call = call
Proceeds == todo' = Tail(todo) /\ UNCHANGED <<page, width, color, phase, metavar>>

PrintHeading ==
    /\ Calls("heading") /\ Proceeds
    /\ Write(Head(todo).pieces)
    /\ UNCHANGED text

\* print_paragraph
BeginParagraph ==
    /\ Calls("paragraph") /\ Proceeds
    /\ Write(<<Newline>>)
    /\ text' = Wrapping(Head(todo).words, 0, FALSE)

\* The description of a display group.
BeginIntro ==
    /\ Calls("intro") /\ Proceeds
    /\ Write(<<Str(Plain(2))>>)
    /\ text' = Wrapping(Head(todo).words, 2, TRUE)

\* append_help_row, as far as the help text, and emit_help_text.
BeginRow ==
    /\ Calls("row") /\ Proceeds
    /\ LET row        == Head(todo)
           padding    == IF row.length < MaxNameLen THEN MaxNameLen - row.length + 4 ELSE 4
           helpIndent == 2 + row.length + padding
           fallback   == MaxNameLen + 6
           start      == <<Str(Beside(Plain(2), row.name))>> \o Pad(padding)
       IN  IF row.words # << >> /\ helpIndent > width - 20
           THEN /\ Write(start \o <<Newline>> \o Pad(fallback))
                /\ text' = Wrapping(row.words, fallback, FALSE)
           ELSE /\ Write(start)
                /\ text' = Wrapping(row.words, helpIndent, TRUE)

\* What wrap_text takes to fit on the line.
Available(t) ==
    LET n == IF t.onFirst THEN width ELSE width - t.indent
    IN  IF n < 20 THEN width - 20 ELSE n

\* Mutation for LinesFit: the space before the word is not counted.
BreaksWithoutSpace(t, bytes) == t.lineLen + bytes > Available(t)

Breaks(t, bytes) == t.lineLen + bytes + (IF t.lineLen > 0 THEN 1 ELSE 0) > Available(t)

\* One turn of the loop of wrap_text, which counts bytes, escape sequences and all.
WrapWord ==
    /\ phase = "printing" /\ text.active /\ text.words # << >>
    /\ LET word == Head(text.words)
           len  == IF Breaks(text, word.bytes) THEN 0 ELSE text.lineLen
           gap  == IF len > 0 THEN 1 ELSE 0
       IN  /\ Write((IF Breaks(text, word.bytes) THEN <<Newline>> \o Pad(text.indent) ELSE << >>)
                      \o Pad(gap) \o <<WordOf(word, text.indent)>>)
           /\ text' = [text EXCEPT !.words = Tail(@), !.lineLen = len + gap + word.bytes,
                                   !.onFirst = FALSE]
    /\ UNCHANGED <<page, width, color, phase, todo, metavar>>

\* The line feed after a paragraph, an introduction or a row.
EndText ==
    /\ phase = "printing" /\ text.active /\ text.words = << >>
    /\ Write(<<Newline>>)
    /\ text' = NoText
    /\ UNCHANGED <<page, width, color, phase, todo, metavar>>

\* The buffer is printed and freed.
Printed ==
    /\ phase = "printing" /\ ~text.active /\ todo = << >>
    /\ phase' = "printed"
    /\ UNCHANGED <<page, width, color, todo, text, buf, metavar, failures>>

Stopped == phase \in {"printed", "crashed"} /\ UNCHANGED vars

Next ==
    \/ \E w \in Width : SetHelpWidth(w)
    \/ \E enable \in BOOLEAN, env \in Environment : SetColor(enable, env)
    \/ PrintHelp \/ PrintHeading \/ BeginParagraph \/ BeginIntro \/ BeginRow
    \/ WrapWord \/ EndText \/ Printed \/ CrashOnNull \/ Stopped

Spec == Init /\ [][Next]_vars

-----------------------------------------------------------------------------
(***************************************************************************)
(* Properties.                                                             *)
(***************************************************************************)
(* As long as no growth of the buffer fails (a line feed may be lost with  *)
(* one): whatever the names, the colours and the words are, the text of a  *)
(* line below the usage begins at the column it is laid out for, although  *)
(* the length of a name is not measured on what is printed of it; and if   *)
(* the line holds more than one word of text, it is no wider than Limit of *)
(* that column.  Limit is the width of the help where the column leaves    *)
(* twenty columns or more.  Where it leaves fewer, which the fallback      *)
(* column does for widths below 52, the code wraps at the column and all   *)
(* but twenty columns of the width together, which is more than the width  *)
(* (clap_formatter.c:22-54, 94-122, 160-210).                              *)
(***************************************************************************)
Limit(indent) == IF width - indent < 20 THEN indent + width - 20 ELSE width

LinesFit ==
    failures = 0 =>
        \A i \in 2..Len(buf.lines) :
            LET l == buf.lines[i]
            IN  l.words > 0 => /\ l.start = l.indent
                               /\ l.words = 1 \/ l.cols <= Limit(l.indent)

(***************************************************************************)
(* However the buffer grew, and whichever growth failed, its contents and  *)
(* the terminating zero are inside the allocation, and so is what          *)
(* get_upper_metavar wrote to its array of 64 (clap_buffer.c:40-69,        *)
(* clap_formatter.c:57-80).                                                *)
(***************************************************************************)
BuffersHold == buf.len + 1 <= buf.alloc /\ metavar < MetavarSize
=============================================================================
