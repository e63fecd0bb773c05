---------------------------- MODULE Subcommands -----------------------------
(***************************************************************************)
(* Subcommands: clap_parse_args calls itself, by way of                    *)
(* clap_parse_with_pattern, for the words after the name of a command, and *)
(* merges what comes back.  A frame is one such call.  What a parser makes *)
(* of its own words is ParseArgs' business: here a word is an option that  *)
(* one or several parsers know, the name of a command, or neither, and     *)
(* then the value of the parser's positional, if it has one.               *)
(***************************************************************************)
EXTENDS Integers, Sequences, FiniteSetsExt, SequencesExt

CONSTANTS
    Parser,        \* the parsers of the tree
    Root,          \* the one the client calls
    Word,          \* the words of a command line
    HelpWord,      \* the one that every parser knows as --help
    NoWord,        \* a NULL string
    Commands,      \* for each parser, its commands: a function from words to parsers
    Options,       \* for each parser, the options it knows, with the types of their
                   \*    values; the word is the key
    Positional,    \* for each parser, the key of its positional of one word, or NoWord
    DestOf,        \* for each parser, the key of the command's name (subparser_dest)
    Required,      \* for each parser, the keys it requires, with the types it asks for
    Requires,      \* for each parser, pairs <<k, t>>: k requires t
    Conflicts,     \* for each parser, pairs <<k, t>>: k conflicts with t
    Defaults,      \* for each parser, the keys it has a default for, with their types
    Refused,       \* for each parser, the keys whose default does not convert
    Groups,        \* for each parser, its mutually exclusive groups, sets of options
    RequiredGroups,\* and those of them that are required
    Line,          \* the command lines
    MaxParses,     \* bound: the parses that reuse one error structure
    MaxFailures    \* bound: the allocations of a run that fail

Key == UNION {DOMAIN Options[q] \cup DOMAIN Defaults[q] \cup {DestOf[q]}
              \cup ({Positional[q]} \ {NoWord}) : q \in Parser}

\* What the namespace can tell of a value; a count of 0 is not a count that is there.
Type == {"NONE", "string", "int", "zero", "float", "bool", "array"}

ASSUME SubcommandsAssumption ==
    /\ Root \in Parser /\ HelpWord \in Word /\ NoWord \notin Word
    /\ Line \subseteq Seq(Word)
    /\ \A q \in Parser :
          /\ DOMAIN Options[q] \subseteq Word /\ DOMAIN Commands[q] \subseteq Word
          /\ \A w \in DOMAIN Commands[q] : Commands[q][w] \in Parser
          /\ \A w \in DOMAIN Options[q] : Options[q][w] \in Type
          /\ \A k \in DOMAIN Defaults[q] : Defaults[q][k] \in Type
          /\ Positional[q] \notin DOMAIN Options[q]
          /\ DOMAIN Required[q] \subseteq Key /\ Refused[q] \subseteq Key
          /\ Requires[q] \cup Conflicts[q] \subseteq Key \X Key
          /\ RequiredGroups[q] \subseteq Groups[q]
          /\ \A g \in Groups[q] : g \subseteq DOMAIN Options[q]
          /\ \A g, h \in Groups[q] : g # h => g \cap h = {}
    /\ {MaxParses, MaxFailures} \subseteq Nat

(***************************************************************************)
(* A value tells where it comes from: the level of the frame that wrote it,*)
(* and whether it was given, a default, or the name of a command; and it   *)
(* has the type the parser q of that frame stored it with.                 *)
(***************************************************************************)
Absent == [from |-> "ABSENT", level |-> 0, type |-> "NONE"]
TypeOf(q, k) == IF k \in DOMAIN Options[q] THEN Options[q][k] ELSE "string"
Given(n, q, k) == [from |-> "GIVEN", level |-> n, type |-> TypeOf(q, k)]
Default(n, q, k) == [from |-> "DEFAULT", level |-> n, type |-> Defaults[q][k]]
CommandName(n) == [from |-> "COMMAND", level |-> n, type |-> "string"]
EmptyNs == [k \in Key |-> Absent]

Resource == {"namespace", "used", "tokens", "pattern", "argv"}
Phase == {"namespace", "used", "tokens", "pattern", "parse", "full", "called", "checks",
          "defaults"}

VARIABLES
    line,      \* argv
    frames,    \* the calls of clap_parse_args that are under way, the client's first
    held,      \* what they have allocated and not released, by level
    returning, \* what the innermost call returns, or "NONE" while it runs
    result,    \* what the client's call returned
    outNs,     \* what it received on success
    error,     \* the client's error structure: code, subcommand_name
    shown,     \* whose usage clap_print_help_on_error printed last
    parses,    \* history: how many parses there were
    failures,  \* history: how many allocations failed
    failedAt,  \* history: the level that did not succeed, 0 if none
    nameBefore,\* history: subcommand_name when this parse began
    path       \* history: the positions in line of the commands entered

history == <<parses, failures, failedAt, nameBefore, path>>
vars == <<line, frames, held, returning, result, outNs, error, shown, history>>

Depth == Len(frames)
Top == frames[Depth]
Idle == frames = << >>
Running(phase) == ~Idle /\ returning = "NONE" /\ Top.phase = phase

\* The words of the innermost frame begin after its first position.
NewFrame(parser, first) ==
    [parser |-> parser, phase |-> "namespace", pos |-> first, used |-> {}, ns |-> EmptyNs]

Init ==
    /\ line = << >> /\ frames = << >> /\ held = {}
    /\ returning = "NONE" /\ result = "NONE" /\ outNs = EmptyNs
    /\ error = [code |-> "NONE", name |-> NoWord]
    /\ shown = "NONE"
    /\ parses = 0 /\ failures = 0 /\ failedAt = 0 /\ nameBefore = NoWord /\ path = << >>

\* The client calls clap_parse_args.
Parse ==
    /\ Idle /\ parses < MaxParses
    /\ line' \in Line
    /\ frames' = <<NewFrame(Root, 1)>>
    /\ result' = "NONE" /\ outNs' = EmptyNs /\ shown' = "NONE"
    /\ parses' = parses + 1 /\ failedAt' = 0 /\ nameBefore' = error.name /\ path' = << >>
    /\ UNCHANGED <<held, returning, error, failures>>

-----------------------------------------------------------------------------
\* The innermost frame goes on; it gets or releases what it holds.
Continues(frame, resources) ==
    /\ frames' = [frames EXCEPT ![Depth] = frame]
    /\ held' = {h \in held : h[1] # Depth} \cup {<<Depth, r>> : r \in resources}
    /\ UNCHANGED <<line, returning, result, outNs, error, shown, history>>

Holds == {r \in Resource : <<Depth, r>> \in held}

\* The innermost frame returns r after it has released some of what it holds.
Returns(r, released) ==
    /\ returning' = r
    /\ held' = held \ {<<Depth, x>> : x \in released}
    /\ failedAt' = Depth
    /\ UNCHANGED <<line, frames, result, outNs, shown, parses, nameBefore, path>>

Fails(code, released) ==
    /\ Returns("ERROR", released)
    /\ error' = [error EXCEPT !.code = code]

OutOfMemory(released) ==
    /\ failures < MaxFailures
    /\ failures' = failures + 1
    /\ Fails("MEMORY", released)

Gets(resource, next) == Continues([Top EXCEPT !.phase = next], Holds \cup {resource})

GetNamespace ==
    /\ Running("namespace")
    /\ Gets("namespace", "used") \/ OutOfMemory({})

\* mutex_group_used, which is there only if the parser has groups.
GetUsed ==
    /\ Running("used")
    /\ \/ Groups[Top.parser] = {} /\ Continues([Top EXCEPT !.phase = "tokens"], Holds)
       \/ /\ Groups[Top.parser] # {}
          /\ Gets("used", "tokens") \/ OutOfMemory({"namespace"})

\* clap_tokenize; without words there are no tokens.
GetTokens ==
    /\ Running("tokens")
    /\ \/ Top.pos > Len(line) /\ Continues([Top EXCEPT !.phase = "pattern"], Holds)
       \/ /\ Top.pos <= Len(line)
          /\ Gets("tokens", "pattern") \/ OutOfMemory({"used", "namespace"})

\* The options at the front, which clap_analyze_pattern looks up before any is parsed.
IsOption(w) == w = HelpWord \/ \E q \in Parser : w \in DOMAIN Options[q]
FrontOptions ==
    {i \in Top.pos..Len(line) : \A j \in Top.pos..i : IsOption(line[j])}
Known(w) == w = HelpWord \/ w \in DOMAIN Options[Top.parser]

GetPattern ==
    /\ Running("pattern")
    /\ \/ /\ \A i \in FrontOptions : Known(line[i])
          /\ Gets("pattern", "parse")
       \/ /\ \E i \in FrontOptions : ~Known(line[i])
          /\ Fails("UNRECOGNIZED", {"tokens", "used", "namespace"})
          /\ UNCHANGED failures
       \/ OutOfMemory({"tokens", "used", "namespace"})

-----------------------------------------------------------------------------
\* clap_parse_with_pattern, a word at a time.
AtWord == Running("parse") /\ Top.pos <= Len(line)
W == line[Top.pos]

\* The groups of the innermost parser that w is in, of which there is one at most.
GroupsOf(w) == {g \in Groups[Top.parser] : w \in g}

\* What clap_parse_args releases when the parse stage does not succeed.
AfterStage == {"pattern", "tokens", "used", "namespace"}

\* clap_mutex_check_conflict comes before the option is applied.
ParseOption ==
    /\ AtWord /\ W \in DOMAIN Options[Top.parser]
    /\ \/ /\ GroupsOf(W) \cap Top.used = {}
          /\ Continues([Top EXCEPT !.pos = @ + 1, !.used = @ \cup GroupsOf(W),
                                   !.ns[W] = Given(Depth, Top.parser, W)], Holds)
       \/ /\ GroupsOf(W) \cap Top.used # {}
          /\ Fails("MUTUALLY_EXCLUSIVE", AfterStage)
          /\ UNCHANGED failures

ParseHelp ==
    /\ AtWord /\ W = HelpWord
    /\ Returns("HELP", AfterStage)
    /\ UNCHANGED <<error, failures>>

\* A word that names no command is the positional's; no option and no command follows it.
ParsePositional ==
    /\ AtWord /\ ~IsOption(W) /\ W \notin DOMAIN Commands[Top.parser]
    /\ Positional[Top.parser] # NoWord
    /\ LET k == Positional[Top.parser]
       IN  Continues([Top EXCEPT !.phase = "full", !.pos = @ + 1,
                                 !.ns[k] = Given(Depth, Top.parser, k)], Holds)

\* A word too many: there is no positional for it, or the positional has its word.
RejectWord ==
    /\ \/ /\ AtWord /\ ~IsOption(W) /\ W \notin DOMAIN Commands[Top.parser]
          /\ Positional[Top.parser] = NoWord
       \/ Running("full") /\ Top.pos <= Len(line)
    /\ Fails("TOO_MANY_ARGS", AfterStage)
    /\ UNCHANGED failures

\* sub_argv is made and clap_parse_args called for the rest of the line.
EnterCommand ==
    /\ AtWord /\ W \in DOMAIN Commands[Top.parser]
    /\ \/ /\ frames' = Append([frames EXCEPT ![Depth].phase = "called"],
                              NewFrame(Commands[Top.parser][W], Top.pos + 1))
          /\ held' = held \cup {<<Depth, "argv">>}
          /\ path' = Append(path, Top.pos)
          /\ UNCHANGED <<line, returning, result, outNs, error, shown, parses, failures,
                         failedAt, nameBefore>>
       \/ OutOfMemory(AfterStage)

EndOfWords ==
    /\ Running("parse") \/ Running("full")
    /\ Top.pos > Len(line)
    /\ Continues([Top EXCEPT !.phase = "checks"], Holds \ {"pattern", "tokens"})

-----------------------------------------------------------------------------
\* The call of the command has not succeeded: the caller names it and returns the same.
CommandFails ==
    /\ Depth > 1 /\ returning \notin {"NONE", "SUCCESS"}
    /\ frames' = Front(frames)
    /\ held' = held \ {<<Depth - 1, x>> : x \in AfterStage \cup {"argv"}}
    /\ error' = [error EXCEPT !.name = line[path[Depth - 1]]]
    /\ UNCHANGED <<line, returning, result, outNs, shown, history>>

\* Mutation for ValuesByPrecedence: what the command brings wins.
MergedOver(dst, src) == [k \in Key |-> IF src[k] # Absent THEN src[k] ELSE dst[k]]

\* clap_namespace_merge
Merged(dst, src) == [k \in Key |-> IF dst[k] # Absent THEN dst[k] ELSE src[k]]

(***************************************************************************)
(* The call of the command has succeeded: its name is stored, then what it *)
(* brings is merged, defaults included.  No write is looked at: those of   *)
(* the keys in lost have no effect.                                        *)
(***************************************************************************)
CommandSucceeds ==
    /\ Depth > 1 /\ returning = "SUCCESS"
    /\ LET n     == Depth - 1
           outer == frames[n]
           dest  == DestOf[outer.parser]
       IN  \E lost \in {{}} \cup (IF failures < MaxFailures THEN {{k} : k \in Key} ELSE {}) :
             LET named == IF dest \in lost THEN outer.ns
                          ELSE [outer.ns EXCEPT ![dest] = CommandName(n)]
                 sub   == [k \in Key |-> IF k \in lost THEN Absent ELSE Top.ns[k]]
             IN  /\ frames' = Append(SubSeq(frames, 1, n - 1),
                                     [outer EXCEPT !.phase = "checks", !.ns = Merged(named, sub)])
                 /\ failures' = failures + Cardinality(lost)
    /\ returning' = "NONE"
    /\ held' = held \ ({<<Depth, "namespace">>} \cup
                       {<<Depth - 1, x>> : x \in {"argv", "pattern", "tokens"}})
    /\ UNCHANGED <<line, result, outNs, error, shown, parses, failedAt, nameBefore, path>>

\* Mutation for NothingHeld: what fails after the parse stage forgets the groups' array.
AfterChecksKept == {"namespace"}

\* What clap_parse_args releases when a check, or a default, fails.
AfterChecks == {"used", "namespace"}

\* Mutation for TestsSeeTheCommand: a default of the command does not count.
HasGiven(k) == Top.ns[k].from \notin {"ABSENT", "DEFAULT"}

Has(k) == Top.ns[k] # Absent

(***************************************************************************)
(* A required positional or option is missing, which each of them finds by *)
(* asking the namespace for a value of its own type; or a required group   *)
(* is.  The nargs of the positionals, which are tested in between, repeat  *)
(* the test of the required ones: it has the same condition wherever       *)
(* MULTIPLE follows the nargs (ParserBuilder's FlagsFollowNargs).          *)
(***************************************************************************)
Missing ==
    \/ \E k \in DOMAIN Required[Top.parser] : Top.ns[k].type # Required[Top.parser][k]
    \/ ~(RequiredGroups[Top.parser] \subseteq Top.used)

\* clap_validate_dependencies
Violated ==
    \/ \E d \in Requires[Top.parser] : Has(d[1]) /\ ~Has(d[2])
    \/ \E d \in Conflicts[Top.parser] : Has(d[1]) /\ Has(d[2])

\* The tests of clap_parse_args, of which the first that fails ends the call.
CheckRequired ==
    /\ Running("checks")
    /\ \/ Missing /\ Fails("REQUIRED_MISSING", AfterChecks) /\ UNCHANGED failures
       \/ /\ ~Missing /\ Violated
          /\ Fails("DEPENDENCY_VIOLATION", AfterChecks) /\ UNCHANGED failures
       \/ ~Missing /\ ~Violated /\ Continues([Top EXCEPT !.phase = "defaults"], Holds)

\* clap_apply_defaults, which gives up at a default that does not convert; then the call
\* returns.
ApplyDefaults ==
    /\ Running("defaults")
    /\ \/ /\ \E k \in Refused[Top.parser] : ~Has(k)
          /\ Fails("TYPE_CONVERSION", AfterChecks) /\ UNCHANGED failures
       \/ /\ \A k \in Refused[Top.parser] : Has(k)
          /\ frames' = [frames EXCEPT ![Depth].ns =
                           [k \in Key |-> IF @[k] = Absent /\ k \in DOMAIN Defaults[Top.parser]
                                          THEN Default(Depth, Top.parser, k) ELSE @[k]]]
          /\ held' = held \ {<<Depth, "used">>}
          /\ returning' = "SUCCESS"
          /\ UNCHANGED <<line, result, outNs, error, shown, history>>

\* The client's call returns; the client owns the namespace it received.
ReturnToClient ==
    /\ Depth = 1 /\ returning # "NONE"
    /\ frames' = << >>
    /\ returning' = "NONE"
    /\ result' = returning
    /\ IF returning = "SUCCESS"
       THEN outNs' = Top.ns /\ held' = held \ {<<1, "namespace">>}
       ELSE UNCHANGED <<outNs, held>>
    /\ UNCHANGED <<line, error, shown, history>>

\* Mutation for ErrorNamesCommand: the usage is always the parser's own.
UsageOfRoot(name) == Root

\* clap_print_subcommand_usage: the command of that name, among the parser's own.
UsageOf(name) ==
    IF name = NoWord THEN Root
    ELSE IF name \in DOMAIN Commands[Root] THEN Commands[Root][name] ELSE "NONE"

\* clap_print_help_on_error, by a client whose parse has failed.
PrintHelpOnError ==
    /\ Idle /\ result = "ERROR"
    /\ shown' = UsageOf(error.name)
    /\ UNCHANGED <<line, frames, held, returning, result, outNs, error, history>>

\* The client has no more lines.
Done == Idle /\ parses = MaxParses /\ UNCHANGED vars

Next ==
    \/ Parse \/ GetNamespace \/ GetUsed \/ GetTokens \/ GetPattern
    \/ ParseOption \/ ParseHelp \/ ParsePositional \/ RejectWord \/ EnterCommand
    \/ EndOfWords
    \/ CommandFails \/ CommandSucceeds \/ CheckRequired \/ ApplyDefaults
    \/ ReturnToClient \/ PrintHelpOnError \/ Done

Spec == Init /\ [][Next]_vars

-----------------------------------------------------------------------------
(***************************************************************************)
(* What a line means, told from the line alone: the parsers along the path *)
(* of its commands, and the words that belong to each.                     *)
(***************************************************************************)
Levels == 1..(Len(path) + 1)

ParserAt[n \in 1..(Len(line) + 1)] ==
    IF n = 1 THEN Root ELSE Commands[ParserAt[n - 1]][line[path[n - 1]]]

OwnPositions(n) ==
    LET first == IF n = 1 THEN 1 ELSE path[n - 1] + 1
        last  == IF n > Len(path) THEN Len(line) ELSE path[n] - 1
    IN  first..last
OwnWords(n) == {line[i] : i \in OwnPositions(n)}

\* The key that word i gives a value to, as one of level n.
KeyAt(n, i) == IF IsOption(line[i]) THEN line[i] ELSE Positional[ParserAt[n]]

Names(n, k) == n <= Len(path) /\ DestOf[ParserAt[n]] = k
Writes(n, k) == k \in {KeyAt(n, i) : i \in OwnPositions(n)} \/ Names(n, k)
Written(n, k) == IF Names(n, k) THEN CommandName(n) ELSE Given(n, ParserAt[n], k)

\* The value of k after level n and those below it: given above default, outer above inner.
ValueFrom(n, k) ==
    LET writers  == {m \in Levels : m >= n /\ Writes(m, k)}
        defaults == {m \in Levels : m >= n /\ k \in DOMAIN Defaults[ParserAt[m]]}
    IN  IF writers # {} THEN Written(Min(writers), k)
        ELSE IF defaults # {} THEN Default(Max(defaults), ParserAt[Max(defaults)], k)
        ELSE Absent

\* Whether k was given at level n or below it, or is one of the defaults below it.
GivenAt(n, k) == \E m \in Levels : m >= n /\ Writes(m, k)
DefaultBelow(n, k) == \E m \in Levels : m > n /\ k \in DOMAIN Defaults[ParserAt[m]]
SeenAt(n, k) == GivenAt(n, k) \/ DefaultBelow(n, k)

\* The value of k that the tests of level n see.
SeenValue(n, k) ==
    IF Writes(n, k) THEN Written(n, k)
    ELSE IF n + 1 \in Levels THEN ValueFrom(n + 1, k) ELSE Absent

MissingAt(n) ==
    LET q == ParserAt[n]
    IN  \/ \E k \in DOMAIN Required[q] : SeenValue(n, k).type # Required[q][k]
        \/ \E g \in RequiredGroups[q] : g \cap OwnWords(n) = {}

ViolatedAt(n) ==
    LET q == ParserAt[n]
    IN  \/ \E d \in Requires[q] : SeenAt(n, d[1]) /\ ~SeenAt(n, d[2])
        \/ \E d \in Conflicts[q] : SeenAt(n, d[1]) /\ SeenAt(n, d[2])

Tested == {"REQUIRED_MISSING", "DEPENDENCY_VIOLATION"}
Verdict(n) == IF MissingAt(n) THEN "REQUIRED_MISSING"
              ELSE IF ViolatedAt(n) THEN "DEPENDENCY_VIOLATION" ELSE "MET"

-----------------------------------------------------------------------------
(***************************************************************************)
(* Properties.                                                             *)
(***************************************************************************)
(***************************************************************************)
(* Between two parses no call of clap_parse_args, however deep and through *)
(* whichever of its exits, has left a namespace, a token list, a pattern,  *)
(* the used groups or an argv behind (clap_tokenizer.c:243-351,            *)
(* clap_parser_stage.c:326-352).                                           *)
(***************************************************************************)
NothingHeld == Idle => held = {}

(***************************************************************************)
(* However deep the command that failed, the error names the outermost one *)
(* of the line, and the usage printed is that command's, whose parser is   *)
(* the only one the caller can find by the name.  A parse that fails in    *)
(* the client's own parser names none, and the client's own usage is       *)
(* printed, if the error structure came to it without a name; one that     *)
(* still has the name of an earlier parse is the case that                 *)
(* NameMeansCommand refutes (clap_parser_stage.c:341-345,                  *)
(* clap_formatter.c:537-541).                                              *)
(***************************************************************************)
ErrorNamesCommand ==
    Idle /\ result = "ERROR" =>
        /\ failedAt > 1 => /\ error.name = line[path[1]]
                           /\ shown # "NONE" => shown = ParserAt[2]
        /\ failedAt = 1 /\ nameBefore = NoWord =>
              error.name = NoWord /\ (shown # "NONE" => shown = Root)

(***************************************************************************)
(* What clap.h:459 says of subcommand_name: it is set if the error         *)
(* occurred inside a subcommand, and else the parser's own help is         *)
(* printed.  An error structure that is used again has the name of the     *)
(* earlier parse: nothing resets it (clap_parser_stage.c:342).             *)
(***************************************************************************)
NameMeansCommand ==
    Idle /\ result = "ERROR" => (error.name # NoWord <=> failedAt > 1)

(***************************************************************************)
(* In the namespace of a parse that succeeds, in which no write was lost,  *)
(* a key has the value of the outermost parser that was given it; only a   *)
(* key given to none has a default, and that is the innermost parser's     *)
(* (clap_parser_stage.c:349-352, clap_namespace.c:21-64,                   *)
(* clap_tokenizer.c:343-351).                                              *)
(***************************************************************************)
ValuesByPrecedence ==
    Idle /\ result = "SUCCESS" /\ failures = 0 =>
        \A k \in Key : outNs[k] = ValueFrom(1, k)

(***************************************************************************)
(* The tests of a parser judge what its own words and those of its         *)
(* commands gave, and, unlike what clap_tokenizer.c:341 says, the defaults *)
(* of its commands (DefaultBelow; see OnlyGivenCount); only its required   *)
(* groups look at its own words alone.  If no write was lost, the call     *)
(* that reports something missing, or a dependency, is one whose tests so  *)
(* judged come to that, and those of the calls below the one that failed,  *)
(* or of all of a parse that succeeds, are met                             *)
(* (clap_parser_stage.c:349-352, clap_tokenizer.c:285-339).                *)
(***************************************************************************)
TestsSeeTheCommand ==
    Idle /\ failures = 0 =>
        /\ result = "ERROR" /\ error.code \in Tested => Verdict(failedAt) = error.code
        /\ result # "NONE" => \A n \in Levels : n > failedAt => Verdict(n) = "MET"

(***************************************************************************)
(* What the comment at clap_tokenizer.c:341-342 says: defaults are applied *)
(* after the dependencies are validated, so that only explicitly provided  *)
(* values are seen.  A parse that succeeds would then have, at each level, *)
(* given whatever something given requires; but the defaults of a command  *)
(* are in the namespace that is merged before its caller's tests.          *)
(***************************************************************************)
OnlyGivenCount ==
    Idle /\ result = "SUCCESS" /\ failures = 0 =>
        \A n \in Levels : \A d \in Requires[ParserAt[n]] :
            GivenAt(n, d[1]) => GivenAt(n, d[2])
=============================================================================
