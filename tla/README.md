# libclap in TLA+

libclap is a C library that parses command lines. A client builds a *parser* (options,
positionals, groups, dependencies, subcommands), then calls `clap_parse_args`, which fills a
*namespace* of typed values or reports an error. This directory holds a model of the library in
TLA+, its model-checking instances for TLC and machine-checked proofs for TLAPS. It is written
from the code under `src/`; line numbers are those of that code.

libclap has no threads and no messages. Three things make it hard. Many features meet in one loop over
the command line (abbreviations, bundles of short options, `--opt=value`, options and positionals of
several values, `--`, negative numbers, mutually exclusive groups, subcommands), and tests judge afterwards
the namespace those features left. It is written in C: parsers, namespaces and buffers are built by long
sequences of calls in any order, each of which allocates, and every allocation may fail. And the parse calls
itself for a subcommand, so that several namespaces, errors and resources are under way at once. The five
state machines here explore each of these over all inputs of a small alphabet.

Contents: [Files](#files) · [Inventory](#inventory) · [The models](#the-models) ·
[Runs](#runs) · [Disagreements found](#disagreements-between-documentation-and-code) ·
[Proofs](#proofs) · [Not modelled](#not-modelled) · [Plan](#plan)

## Files

| file | what it is |
| --- | --- |
| `ClapParser.tla` | the data (tokens, argument specifications, namespace) and the pure functions a parse calls |
| `ParseArgs.tla` | one call of `clap_parse_args` as a state machine, and its properties |
| `Subcommands.tla` | the nested calls of `clap_parse_args` for commands within commands, and what each holds |
| `NamespaceSpec.tla` | what a namespace promises its users |
| `NamespaceStore.tla` | how `clap_namespace.c` keeps it: arrays, tags, ownership, every allocation; implements `NamespaceSpec` |
| `Allocator.tla` | the three allocation functions, their lock, and the live blocks; used by the next and the previous |
| `ParserBuilder.tla` | the client's calls that build and free a parser |
| `HelpSections.tla` | which arguments usage and help show of the parser that is being built |
| `HelpLayout.tla` | how `clap_print_help` lays them out: columns, wrapping, colours, the growing buffer |
| `MCParseArgs.tla`, `MCParseArgs.cfg` | eleven parsers and all short command lines |
| `MCSubcommands`, `MCNamespaceStore`, `MCParserBuilder`, `MCHelpLayout` (`.tla`, `.cfg`) | the instances of the other state machines |
| `MCExactlyN.cfg`, `MCExactlyOne.cfg`, `MCRestIsKept.cfg` | runs of `MCParseArgs` that refute one documented statement each |
| `MCNameMeansCommand.cfg`, `MCOnlyGivenCount.cfg` | the same, of `MCSubcommands` |
| `MCReallocNotNeeded.cfg`; `MCFreesEverything.cfg` | the same, of `MCNamespaceStore`; of `MCParserBuilder` |
| `ParseArgs_proofs.tla` | lemmas on the operators of `ClapParser`; the inductive invariant of `ParseArgs`, type correctness; unknown options; mutually exclusive and required groups |
| `Values_proofs.tla` | where every token goes and where the loops read; options come first; choices, what is required, dependencies, and the namespace against the line |
| `Errors_proofs.tla` | what an error says of the line |
| `Subcommands_proofs.tla` | nested calls: what they hold, whom they name, whose values win, what the tests see |
| `Folds_proofs.tla` | least and greatest naturals, folds and sums of the community modules; used by the next three |
| `NamespaceStore_proofs.tla` | the namespace: capacities, families, crashes, memory, the merge, and that it implements `NamespaceSpec` |
| `ParserBuilder_proofs.tla` | a parser under construction: flags, indices, ids, pointers, memory, and what its help shows |
| `HelpLayout_proofs.tla` | the printed help: the buffer, and the lines of texts |
| `PROJECT.json` | components, runs, the source lines each definition models, hazards, theorems |

    tlc -workers 2 -config MCParseArgs.cfg MCParseArgs
    tlapm ParseArgs_proofs.tla

## Inventory

For each component: the state it keeps, its operations, whom it meets, what is hard about it and what
makes it correct.

**Parse pipeline** (`clap_parse_args`, `src/clap_tokenizer.c:234-352`). No state of its own. Tokenizes
`argv`, analyzes, allocates a new namespace and `mutex_group_used`, runs the parse stage, then five tests in
a fixed order (required positionals, required options, nargs of positionals, required groups,
dependencies), then the defaults. Hard: the order. The tests must judge what the line said, so they come
before the defaults; one test decides what a later one can see. Correct: what succeeds has everything
required; what is reported missing was not given; dependencies are met by the line, not by defaults.

**Tokenizer** (`clap_tokenize_arg`, `clap_expand_short_bundle`). A word becomes a token: positional, long
option with or without `=value`, short option, bundle, or `--`. Hard: `-`, `-1`, `--=x`, the empty word.

**Pattern analysis** (`src/clap_pattern.c`). Looks up every option before the first positional word and
rejects the line if one is unknown or ambiguous. Hard: the parse stage looks the options up again, over
other words (values of options end the analysis, bundles are looked up in the parse stage only). Correct: a
misspelt option is reported before anything is stored or `--help` is answered.

**Option lookup** (`src/clap_find.c`). Exact match first, then a unique prefix. Correct: an exact name is
never ambiguous.

**Parse stage** (`src/clap_parser_stage.c`). State: position, positional index, `parsing_options`, and in a
bundle the tokens consumed so far. `clap_parse_with_pattern` loops over the tokens and calls
`parse_single_option`, directly or from `parse_short_bundle`. Hard: three functions share the count of
tokens (`consumed`, `remaining`, `next_token`), and each must agree with the other two on where the next
value is. Correct: every token is used exactly once; no read past the last token; the loop ends.

**Actions** (`src/clap_actions.c`, `src/clap_action_executor.c`). Ten actions on the namespace entry of an
argument (store, constants, booleans, append, count, help, version, custom). Hard: the entry may be of
another type, from an argument that shares the key. Correct: the namespace says what the line said.

**Namespace** (`src/clap_namespace.c`). A list of named, tagged values that own their strings and arrays.
Operations: set of each type, append, get, has, merge, free. Hard: an entry that changes type, a failed
allocation half way, duplicate names. Correct: one entry per key, tag and contents agree, nothing is leaked or
freed twice.

**Validation** (`src/clap_validator.c`). The choices of an argument. Correct: no value outside them is stored.

**Mutually exclusive groups** (`src/clap_mutex.c`). State: the groups with their ids, the group id in
each argument and, during a parse, `mutex_group_used`, indexed by id. Hard: the id is taken before the group is made,
and anyone can set one. Correct: never two of one group; a required group has one; the id of an argument is that of a
group that lists it, and its index.

**Dependencies** (`src/clap_dependency.c`). Per argument the arguments it requires and conflicts with,
judged by the presence of keys in the namespace.

**Type conversion and defaults** (`src/clap_convert.c`). Converters of the built-in types and
`clap_apply_defaults`. Correct: a default never replaces a value of the line.

**Subcommands** (`src/clap_subparser.c`). A container parser holds one parser per command. The parse of the
rest of the line is delegated, its namespace merged into the parent's. Hard: merge, tests of the parent and
defaults of the child come in an order that lets one be mistaken for another.

**Parser lifecycle and type registry** (`src/clap_parser.c`). The parser owns arguments, groups, types and
subparsers. Operations: new, free, registering a type, switching the help option on and off. Hard: removing
the help option frees an argument others may point to.

**Argument builder** (`src/clap_argument.c`). `clap_add_argument` and the setters, in any order. Hard: flags
that only some setters maintain, ids that are not checked, the cached type handler.

**Errors** (`src/clap_error.c`). The caller's error: code, message, subcommand name. Hard: reuse across parses.

**Allocator** (`src/clap_allocator.c`). Three function pointers and a lock, set once before first use. Correct:
memory is freed and grown by the allocator that made it.

**Display groups** (`src/clap_display_group.c`). Titles under which the help lists arguments; an argument has the
id of its group and the group a list of its arguments. Hard: the two must agree after a failed allocation, since the
sections of the help go by both. Correct: every argument is shown.

**Formatter** (`src/clap_formatter.c`). No state of its own. Builds the usage line and the sections in a buffer and
prints it. Hard: the length of a name is computed apart from the string that is printed, which may be coloured;
the space for the text comes from a width, an indent and two floors. Correct: columns align and lines fit.

**Color** (`src/clap_color.c`). Whether escape sequences are written: four environment variables and a terminal.

**Buffers** (`src/clap_buffer.c`). A length, an allocation and the bytes. Correct: contents and terminator are inside
the allocation, also after a growth that failed.

**Translation, version**: one function pointer through which messages pass; a constant string.

The `hazards` of `PROJECT.json` list, at their lines, what can go wrong in these components that a unit test
would hardly reach, with the properties that cover it or the reason why none does.

## The models

### `ClapParser`: data and functions

A command-line word is an atom of `Word`. What conversions make of it is given by constant functions, so that the
model says what they do without spelling characters: `TokenOf` (`clap_tokenize_arg`, with the letters of a
bundle as words), `Abbreviates` (`strncmp` with the key), `NegativeNumber`
(`looks_like_negative_number`), `Convertible` and `NumberOf` (the type handlers). An argument is an
`ArgumentSpec` record with the fields of `clap_argument_t` a parse reads; a parser is a `ParserSpec`, with the
registration order of arguments (defaults), optionals (lookup) and positionals. A namespace maps each key to a
tagged value, `Absent` when the list has no such entry.

| definition | code |
| --- | --- |
| `Lookup` | `clap_find_option_best_match` |
| `Appended`, `Merged`, `StringValue`... | `clap_namespace_append_string`, `clap_namespace_merge`, setters |
| `ActionError`, `Applied` | `clap_apply_argument_action` and the ten handlers: code of the failure, entry left behind |
| `PositionalMissing`, `OptionMissing`, `NargsError` | `check_required_positional`, `check_required_option`, `check_positional_nargs_constraint` |
| `DependencyViolated` | `clap_validate_dependencies` |
| `Defaulting`, `WithDefaults`, `DefaultFails` | `clap_apply_defaults` |

`CLAP_ARG_MULTIPLE` is the operator `Multiple`: the only setter of that flag is `clap_argument_nargs`, which sets
it for `*`, `+` and N > 1 and clears it otherwise. Hence the branch of `check_required_positional` for
unflagged arguments of several values (141-146) cannot be reached through the interface.

### `ParseArgs`: one call

| state | code |
| --- | --- |
| `phase` | where `clap_parse_args` is: `analyze`, `stage`, inside one of the value loops, in one of the tests, `done`, `crashed` |
| `pos`, `positionalIndex`, `parsingOptions` | the locals of `clap_parse_with_pattern` (`pos` counts from 1) |
| `bundleAt`, `bundleTotal` | the loop variable and `total_consumed` of `parse_short_bundle` |
| `current`, `consumed`, `next`, `left` | the loops over further values in `parse_single_option` and over a positional's words |
| `ns`, `groupUsed` | the namespace and `mutex_group_used` |
| `result`, `error`, `subcommandName` | what the caller gets |
| `claims`, `occurrences`, `given`, `asOption`, `overrun` | history variables, read by the properties alone |

An action is one turn of a loop that stores something, or one test with all its outcomes:

| actions | code |
| --- | --- |
| `AnalyzeRejects`, `AnalyzeAccepts` | `clap_analyze_pattern` |
| `StopToken`, `EndOfLine` | the head of the loop of `clap_parse_with_pattern` |
| `UnknownOption`, `ConflictingOption`, `InformationOption`, `RejectedOption`, `Option`, `OptionWithValues`, `OptionWithRest` | `parse_single_option`, for an option of its own or a letter of a bundle |
| `NextOptionValue`, `RejectedValue`, `RestWord`, `Crash` | its loops over further values, and what a read past the tokens does |
| `EnterSubcommand`, `SubcommandReturns` | the call of a subcommand's parse, and the merge |
| `TooManyArguments`, `RejectedPositional`, `PositionalRest`, `PositionalValues`, `NextPositionalValue`, `PositionalOneOfMany`, `PositionalSingle` | the positional half of the loop |
| `CheckRequiredPositionals` ... `CheckDependencies`, `ApplyDefaults` | the tests in order, the defaults |
| `Returned` | the call is over; a stuttering step, so that TLC's deadlock check stays on for all other states |

Decisions a reader should know:

- *Strings, `argv[0]`, text.* Messages, help text, deprecation warnings and NULL-parameter guards are left out.
- *Allocation succeeds* here. What a failure leaves is the subject of `Subcommands` (the resources of a call),
  `NamespaceStore` (the values) and `ParserBuilder` (the parser).
- *Undefined reads.* `next_token[i]` past the tokens may crash (`Crash`) or read a zeroed token, a NULL word.
  Which one is not determined by the code.
- *Early effects that no one sees.* `clap_mutex_check_conflict` marks the group before the option's value is
  looked for; if that fails the call returns and the marks are freed, so an action marks on success only.
- *The custom action's handler* is the client's code: it is modelled as the handler of
  `examples/custom_type.c`, which converts the value and stores an int. A handler set on an argument whose action
  is not `CUSTOM` is not modelled.
- *A subcommand's parse* is one of the constant `SubReturns`: an error, help, or a success with a namespace. The
  nested calls themselves are in `Subcommands`.
- *Mutations.* An operator whose comment begins "Mutation for" is a plausible bug in the operator after it. Nothing
  uses it; substituting it must violate the property it names (`mutants` in `PROJECT.json`), which shows that the
  property depends on that piece of code.

`TypeOK` is the type invariant. The other properties, all over the whole call:

| property | what it excludes |
| --- | --- |
| `TokensUsedOnce` | a success that dropped a token or gave it to two arguments |
| `ReadsInRange` | a read past the token array |
| `MutexExclusive` | two options of one group accepted, in one bundle, by abbreviation or far apart |
| `RequiredGroupGiven` | a success without an option of a required group |
| `RequiredGiven` | a success without something required (a default standing in for it) |
| `DependenciesMet` | dependencies judged by defaults instead of the line |
| `NamespaceMatchesLine` | a value lost, replaced, reordered or counted wrong; a default over a given value |
| `ChoicesKept` | a value outside the choices accepted |
| `UnknownFoundFirst` | the two look-ups of options disagreeing: `--help` answered on a misspelt line, or actions run before a misspelling is found |
| `ErrorsExplained` | "required" (`MissingIsMissing`), "conflict", "too many", "too few" (`...Explained`) reported for a line that is not so |
| `OptionsComeFirst` | (action property) a word taken for an option after `--` or a positional |
| `Terminates` | (liveness) a call that does not return |

Some hold with an exception the code makes, which the property names. `Misaligned` describes the lines on which
`parse_single_option` looks for further values in the wrong place (see the findings); `Recognisable` the
arguments whose presence the required tests can see; `Contested` the positionals of N words that
`check_positional_nargs_constraint` judges by a key others write; `ChoicesKept` and `NamespaceMatchesLine` name their
exceptions in their comments, and hold on misaligned lines too. Where the documentation promises what an exception
leaves out, the next section says so, and for most of them a run shows that the unrestricted statement fails. `OwnLine` restricts a property to parsers without subcommands,
whose words this parser does not see; `OwnsKey` leaves out arguments that share a key, where presence of one is
presence of the other.

### `Subcommands`: calls within calls

A *frame* is one call of `clap_parse_args` that is under way: its parser, where it is, the word it is at, its
namespace. `frames` is the stack of them; `held` says what each has allocated and not released (namespace,
`mutex_group_used`, tokens, pattern, `sub_argv`); `returning` is what the innermost call is about to return;
`error` is the client's error structure, which survives from one parse to the next.

| actions | code |
| --- | --- |
| `Parse`, `ReturnToClient` | the client's call of `clap_parse_args` |
| `GetNamespace`, `GetUsed`, `GetTokens`, `GetPattern` | its four allocations, each with the way out that releases the ones before (`clap_tokenizer.c:242-272`); `GetPattern` also rejects an unknown option |
| `ParseOption`, `ParseHelp`, `ParsePositional`, `RejectWord`, `EndOfWords` | `clap_parse_with_pattern`, a word at a time, with the conflicts of groups |
| `EnterCommand`, `CommandFails`, `CommandSucceeds` | `clap_parser_stage.c:305-352`: `sub_argv`, the nested call, the name in the error, or the name in the namespace and the merge |
| `CheckRequired`, `ApplyDefaults` | the tests (positionals and options by the type of their entry, groups, dependencies) and the defaults, one of which may not convert (`clap_tokenizer.c:285-351`) |
| `PrintHelpOnError` | whose usage `clap_print_help_on_error` prints |

What a parser makes of its own words is `ParseArgs`' business, so a word here is an option of one word that some parsers
know, the name of a command, or neither, and then the value of the parser's positional, which takes one word. The ways
out of a call are all there, each with what it releases: a parser has exclusive groups, some of them required, keys it
requires with the type that `check_required_positional` and `check_required_option` ask the namespace for, dependencies,
and defaults, of which one that does not convert ends the call. The test of the nargs of the positionals
(`clap_tokenizer.c:303-310`) has no action of its own: it is the test of the required positionals again, with the same
condition wherever the flag MULTIPLE follows nargs, which is what `FlagsFollowNargs` says, and `ParseArgs` has it
(`NargsError`). A value that an option or a positional refuses leaves the parse stage as a conflict or a word too many does
and releases the same.

A value records where it came from: the level that wrote it, whether it was given, a default or the name of a command,
and its type. That is what the properties compare with `ValueFrom` and `Verdict`, which read the origin of each value, and
what the tests of each level come to, off the line alone.

| property | what it excludes |
| --- | --- |
| `NothingHeld` | a way out of a call, at any depth, that forgets a resource |
| `ErrorNamesCommand` | an error that names an inner command, or the usage of another parser printed for it; for an error of the client's own parser only if the error structure came without a name |
| `ValuesByPrecedence` | a default above a given value, an inner value above an outer one |
| `TestsSeeTheCommand` | a parser that reports missing what its command brought, or accepts what is unmet; the defaults of a command count |

The last words of the second and of the fourth are what the code does and the documentation denies: two runs refute
what it says (`NameMeansCommand`, `OnlyGivenCount`).

### `NamespaceStore` and `NamespaceSpec`: the namespace

`NamespaceStore` follows `clap_namespace.c`: an array of entries with a capacity, each with a copy of its key (NULL if the
copy failed), a tag and the union the tag selects. An operator computes the *outcome* of a C function for the
allocations of it that fail: the store it leaves, the blocks it makes and frees, what it returns, whether it
crashed; `Ensured` (`ensure_value`) is the first part of every other. `Called` makes that outcome a step. Each
setter, append and free is one step. `clap_namespace_merge` is a loop of calls on the destination, so it is a sequence
of steps (`BeginMerge`, `SkipEntry`, `CopyEntry`, `EndMerge`), with an allocation of each able to fail.

`Allocator` has `clap_set_allocator` with its lock, and counts the live blocks per *family*, the malloc that made them.
With a client's malloc and free and no realloc, `clap_realloc` hands the client's memory to the C library
(`ReallocIsForeign`): it may crash, or make of it a block of its own, which stays with the namespace (`moved`) until the client's
free is called on it, which may crash in turn. `OneFamily` says that no other block meets a function of another
family; that the documentation knows nothing of this one is the run `realloc_not_needed`.

`NamespaceSpec` is the abstract specification: a map from keys to values; a call concerns the key it names and no
other; a call that says FALSE has changed nothing; without memory a call may have no effect whatever it says, or keep
NULL in place of its string. `Refines` shows, through `INSTANCE NamespaceSpec WITH map <- ...`, that the store implements it: the
map is what the getters tell.

| property | what it excludes |
| --- | --- |
| `WithinCapacity` | a write behind an array after some sequence of failed growths |
| `OneFamily` | a block released by a function of another family, but for an array that has grown with no realloc given |
| `CrashesExplained` | a NULL key compared or a NULL array written without a failed allocation before |
| `LostOnlyByRetyping` | (action property) a leak or a double free, other than the one named: an entry that owns a string or array gets another type |
| `MergeIsUnion` | (action property) a merge that loses or overwrites something when memory suffices |
| `Refines` | (refinement) a call that touches another key, or changes something and says FALSE |

### `ParserBuilder` and `HelpSections`: building a parser

`p` is a `clap_parser_t` with its arguments: the arrays `args`, `optionals` and `positionals`, the two kinds of groups with
their ids and members, the registered types, the container of commands, and per argument its flags, nargs, group
ids, strings, choices, dependencies and the texts it owns. The functions that share a shape share an operator: the setters of
texts (`TextSet`), the two kinds of groups (`GroupAdded`, `GroupJoined`), the two kinds of dependencies. As in
`NamespaceStore` an operator computes the outcome of a call for the allocation that fails, and an action makes it a
step; the client may call anything in any order with any argument or group it was given, and free the parser at any
time. `ArgumentBlocks` and `ParserBlocks` are what `clap_argument_free` and `clap_parser_free` release.

`HelpSections` extends it with which rows and usage items the formatter makes of the parser as it stands: the
sections of ungrouped arguments go by the id in the argument, those of groups by the list in the group.

| property | what it excludes |
| --- | --- |
| `FlagsFollowNargs` | MULTIPLE or REQUIRED out of step with nargs after some order of setters |
| `IndexedInOrder` | a released argument in `parser->arguments`; indices that miss, repeat or reorder an argument |
| `GroupIdsAreIndices` | an id in an argument that is not that of a group which lists it, or not its index, which `clap_mutex_check_conflict` takes it for |
| `CrashesExplained` | a NULL pointer used though every allocation succeeded |
| `LostOnlyTwoWays` | (action property) a leak or double free, other than the two it names |
| `HelpShowsEach` | an argument that help shows twice or not at all |

Four exceptions are the code's. After an allocation failed in `clap_add_argument`, `optionals` or `positionals` may lack an argument
that `args` has. An id that was taken by a group that could not be added shifts the indices of the groups after it:
`GroupIdsAreIndices` holds of the others also then, and says of one that is no index that an id below it was lost. `clap_argument_mutex_group` sets any id, which nothing compares with the groups
(`SetMutexGroup`, with the numbers `MutexId`); `chosen` are the arguments whose id the client set that way last, and the property
is about the others. And a positional given the action HELP is what `clap_parser_set_add_help(false)` looks for, but it is
removed from `optional_args` only: `positional_args` keeps the released argument (`IndexedInOrder` leaves such entries out;
what groups and dependencies still point to it is not looked at).

Left out: the messages of dependencies; description, epilog, version and usage text of the parser, which are
copied and freed like the texts of an argument; `clap_argument_handler` and `clap_argument_data`, one pointer each; the
contents of a command's parser, which is a block here. At most one allocation of a call fails; the built-in types
and the copies of choice strings do not; addresses are not used again.

### `HelpLayout`: the printed help

A word is its columns and its bytes, which differ when it is coloured; a text is its words. `UsagePieces` and
`Sections` are the calls `clap_print_help` makes for a parser; `BeginParagraph`, `BeginIntro`, `BeginRow` start a
text, `WrapWord` is one turn of the loop of `wrap_text`, `EndText` its end. Every piece goes to `buf`, which grows as
`clap_buffer_grow` does. A growth may fail, after which that piece is missing and the next is tried, since no caller
looks; a buffer that cannot be made at all is written through a NULL pointer (`CrashOnNull`). The strings
of an argument are built in buffers of their own, whose growth does not fail in the model.

| property | what it excludes |
| --- | --- |
| `LinesFit` | a text off its column; a line of several words wider than the width (or, below 52 columns, than what the code makes of it), as long as no growth failed |
| `BuffersHold` | a byte behind the buffer or behind the 64 of `get_upper_metavar`, however they were filled |

## Runs

Five passing runs, one per state machine, and seven runs that each refute a documented statement.

**core** (`MCParseArgs.cfg`, 144,493 distinct states, under a minute): the properties of `ParseArgs`.

*Bounds.* Five argument objects: a help option, two options and two positionals. Thirteen words: `--`, two plain
words (one of them an integer and one of them a command's name), a negative number, both long names, a prefix
of both, one `=value` form, two short options, both bundles of the two, and `--help`. The command lines
are all those of up to three words over eleven of these (the two short options appear as the letters of bundles)
all those of up to four words over the five that interact most, and of five words over three of these. Eleven parsers, each of which combines features:

| parser | features |
| --- | --- |
| `flags` | a required exclusive group of a flag and a counter, abbreviation, a required positional, `*` |
| `values` | choices, an int option with default, dependency and conflict, `?` |
| `pairs` | a required option and a positional of two values each, a counter, `?` |
| `counts` | a required constant with a default, a required counter, a positional of two words |
| `rests` | an option and a positional with REMAINDER, a `?` option with default, a `?` positional |
| `bundles` | two letters of one bundle that take one and two values, `+` with choices |
| `constants` | APPEND_CONST, CUSTOM, a conflict, a `?` positional with default |
| `shared` | an option and a positional with one key, a default that cannot convert |
| `typed` | a required int option, REMAINDER with the default action, REMAINDER with choices |
| `loose` | two values and REMAINDER with nothing required, `*` |
| `commands` | subcommands under a parser with a required option, a flag and a dependency |

Five words are enough for every interaction of *two* arguments: an option with its two values and both words of a
positional after them; a bundle of a letter with one and a letter with two values and all three words; `--` before or between any of these; an overrun of two values by a bundle at the end. No loop
carries anything from one argument to the next but the state variables, and a third
argument of the same kinds meets the same states.

*Fairness.* `WF_vars(Next)`: the call is one thread's, which executes its next statement. `Terminates` needs
nothing more; the nondeterministic result of a subcommand assumes that its own parse returns.

**subcommands** (`MCSubcommands.cfg`, 266,000 states, under a minute): a tree of four parsers. The root has two
commands, one of which has a command of its own; keys are shared between levels, as an option here, a positional or a default
there, and with another type; requirements and dependencies reach across a level. One command requires an option of a
group, its positional, and, since the default of it does not convert, one more option. *Bounds:* all lines of three words and those of four
that name a command and a command of that; two parses with one error structure, which is what it takes
to see what the first leaves in it; one failed allocation, since no call goes on after one; at most one
write of a merge is lost. Three levels are enough: the middle one is both a command and a parent, and a fourth
would meet the same pair of neighbours.

**namespace** (`MCNamespaceStore.cfg`, 242,000 states, half a minute): two namespaces, as of a parser and its command, two
keys, one string, one number, and the client's allocator with and without realloc. *Bounds:* an array starts with
room for one element (the source: 8 entries, 4 items), so that the second element grows it and two items suffice for what
nine and five would show; ten live blocks at which a client stops storing, which leaves room for both namespaces with
an array each; two failed allocations, so that one call may fail in two places or two calls fail in one. Keys and
namespaces are symmetric: no operation compares two keys but for equality, and the properties name none.

**builder** (`MCParserBuilder.cfg`, 1,222,000 states, a minute): every order of up to five calls after which the
parser may be freed, one failed allocation. *Bounds:* arrays again start with room for one, so that they grow; one
dependency is the limit instead of sixteen; one text of the six stands for all; a client sets the ids 0, 1 or none. Five calls are the parser, an argument, one of its
setters, a group and joining it, or the parser, two arguments and two changes to the help option; no function looks
further back than that.

**help_layout** (`MCHelpLayout.cfg`, 43,000 states, seconds): sixteen parsers whose names, choices and words are short, at the
edge or too long, with and without groups, commands and a usage text; widths 40, 45, 52, 63 and 100 (39 and 501
are ignored), around the limits in the code; all 162 environments; one growth that fails.

*Deadlock* is checked in all of them: every state but the end (of the call, the program, the client's lines) has a
step. Only `core` states fairness; the other machines are driven by a client who owes no further call, and their
loops run over sequences that the actions shorten.

**Seven violation runs** check one documented statement each, on the instances of the passing runs (with fewer
failures or calls where the counterexample needs none); TLC finds the counterexample.

### Disagreements between documentation and code

| run | documented | what the code does |
| --- | --- | --- |
| `option_skips_a_word` (`ExactlyN`) | `readme.md:284` "Exactly N arguments" | `next_token[i]` from i = 1 is the second value only if `next_token` was the first: with `--opt=a` the next word is skipped (`clap_parser_stage.c:164`) |
| `option_without_value` (`ExactlyOne`) | `readme.md:280` "Exactly one argument" | an option that is the last word is accepted without a value (`:106`) |
| `rest_loses_a_word` (`RestIsKept`) | `readme.md:285` "Consume all remaining arguments" | with the default action, the first word an option with REMAINDER takes is replaced by the array of the others (`clap_parser_stage.c:193`) |
| `name_means_command` (`NameMeansCommand`) | `clap.h:459` "If the error occurred inside a subcommand (error->subcommand_name is set), prints help for that subcommand. Otherwise prints the parser's full help." | nothing resets the name: an error of the client's own parser has that of the command that failed in an earlier parse with the same structure (`clap_parser_stage.c:342`) |
| `only_given_count` (`OnlyGivenCount`) | `clap_tokenizer.c:341` "Apply defaults after validation so dependency checks see only explicitly provided values, not default values" | the defaults of a command are merged before the tests of its caller, whose dependencies they meet (`clap_parser_stage.c:349`) |
| `realloc_not_needed` (`ReallocNotNeeded`) | `clap.h:50-52` "Pass NULL if not needed (libclap falls back to malloc+copy+free internally)." | the C library's realloc is called on the client's memory, and the client's free on what it returns (`clap_allocator.c:43,77`) |
| `free_leaves_memory` (`FreesEverything`) | `clap.h:86` "Frees every argument, group, subparser, type registry entry, and internal buffer" | a second `clap_add_subparsers` drops the first container and dest unreleased (`clap_subparser.c:14,31`) |

Others that were met while modelling and are stated in the models, without a run of their own:

- `clap.h:214` says `clap_argument_required` makes an option required; one of type int, float or bool is then reported missing
  even when it is given, as the test asks for a string (`clap_tokenizer.c:184`; `Recognisable`, and the types in
  `Subcommands`' `Required`).
- `clap.h:225` says choices restrict an argument to them; of a positional of several words only the first is compared
  (`clap_parser_stage.c:364`; `ChoicesKept`).
- `clap.h:490` says the error is "Not modified for HELP/VERSION/SUCCESS results"; the name of the subcommand is written
  on HELP and VERSION too (`clap_parser_stage.c:342`; `CommandFails`).
- `clap.h:338` says the id of a mutually exclusive group is a "positive integer"; ids count from 0 (`clap_mutex.c:14`;
  `GroupAdded`), so that a client who takes 0 for no group loses its first one.
- `clap.h:332-333` says the arguments of such a group "cannot appear together"; after a group that could not be added, the id
  of the next one may be past the end of the arrays that `clap_mutex_check_conflict` indexes with it
  (`clap_mutex.c:14,82-86`; the second exception of `GroupIdsAreIndices`).
- `clap.h:621-622` says help is wrapped "at the configured width"; below 52 columns the indent may leave fewer than 20, and the
  line is wrapped as if they were all but 20 of the width (`clap_formatter.c:35`; `Limit` in `LinesFit`).
- `clap.h:96` says a help width is "Clamped to [40, 500]"; one outside is ignored (`SetHelpWidth`).
- Coloured words wrap earlier than plain ones, as their escape sequences are counted.
- `clap.h:455-461` says `clap_print_help_on_error` prints help; it prints the usage, and for an error two
  commands deep that of the outer one (`ErrorNamesCommand`).
- `clap.h:136-138` says `clap_parser_set_add_help` has no effect once the parser is made; it adds and removes the
  option (`AddHelpSet`).
- The setters of texts ignore a NULL, which `clap.h:209` says clears the text.
- A set of a string whose copy fails returns TRUE with NULL stored (`StringSet`).
- "Positional arguments:" is printed with nothing below if every positional is in a group (`PositionalsSection`).

## Proofs

TLC checks five arguments and five words of a parse, three levels of commands, five calls on a parser under
construction; the theorems hold for every set of arguments, keys, words and groups, every parser and line, every tree of
commands and every number of calls. Every invariant and action property that a passing run checks, and the refinement,
is the statement of a theorem; liveness alone is not. The theorems rest on the assumptions of the modules, which TLC
evaluates in the passing runs:

- `AtomsAssumption`: NULL is no string and no argument.
- `WordsAssumption`: the constant functions are typed; a bundle has a letter, and a letter becomes a short option or,
  if it is `-`, the word `--`, which is `-` and one character (`clap_parser_stage.c`, `parse_short_bundle`); what reads
  as a negative number begins with `-` and is not `--`.
- `ParsersAssumption`: `clap_add_argument` makes a new argument and lists it once, in `arguments` and in either
  `optionals` or `positionals`. It speaks of a parser that was built without a failed allocation and without a positional
  turned into a help option, the two exceptions `IndexedInOrder` has.
- `LinesAssumption`, `SubReturnsAssumption`: the lines are sequences of words, a subcommand's results are typed.
- `SubcommandsAssumption`: the options, commands, requirements, dependencies and groups of each parser are words, parsers,
  keys and sets of its options; a positional has a key of its own, and an option is in one group at most, as it has one id.
- `BuilderAssumption`: capacities are at least 1, a client makes at least one call, no type is registered under NULL, and
  an argument has finitely many texts (the code: six).
- `StoreAssumption`: there are a key and a string, finitely many namespaces, and capacities are at least 1.
- `HelpLayoutAssumption`: lengths are naturals, and an option has a flag, as `clap_add_argument` takes an argument without
  one for a positional.

### One parse

**`TypeCorrect`** (`Spec => []TypeOK`). `TypeOK` is not inductive: that `left` stays a natural number and that
`line[next]` is a word needs to be known inside the loops. The inductive invariant is

- `BundleInv`: `bundleAt` is a letter of the bundle at `pos`, and 1 outside a bundle;
- `WordsInv`: in every loop over values something is left to take, for an argument that exists;
- `OptionInv`: a loop over an option's values stands at a token of the line, with `consumed` at least 1, and
  `parsingOptions` is still TRUE, which is how the rest of an option is told from the rest of a positional;
- `PositionalInv`: the words a positional of N is taking lie inside the line, which is what the test
  `pos + nargs > pattern_len` before the loop is for, and `parsingOptions` is FALSE;
- `SubcommandInv`: a subcommand was entered at a word of the line.

`ParseArgs_proofs` proves one lemma per action for all conjuncts, then **`Invariance`** (`Spec => []Inv`).
Its lemmas on operators say what lookup returns, and that actions, defaults and merge keep a namespace well
formed.

**`GroupsExclude`** (`Spec => []MutexExclusive`). That no two options of a group are accepted is not inductive either: it must
be known that the flag of a group is set *whenever* one of its options has been accepted (`FlagWhenUsed`), so that
`Conflicting` stops the second. **`RequiredGroups`** (`Spec => []RequiredGroupGiven`) needs the converse, that a flag is
set *only* by an accepted option (`UsedWhenFlag`), and that a call that is past the test of the groups has passed it
(`TestPassed`). `GroupInv` joins the two directions; it is preserved by the actions that accept an option or a
positional and untouched by all others.

**`UnknownAreFoundFirst`** (`Spec => []UnknownFoundFirst`). A line the analysis rejects never gets past its error
(`RejectedStops`), an error or a result ends the call (`OutcomeEnds`), and an option the analysis did not find unknown is
known or stands behind a word it does not look up (`KnownOrHidden`).

**`TokensAreUsedOnce`** and **`ReadsStayInRange`**. `TokensInv` says, of every line that is not misaligned, how far it is used up:
in the parse stage all tokens before `pos` (in a bundle, `total_consumed` further) and none after; in a loop over values all
before `next`. What makes the count of one function the place where another reads is `OptionUse`: while the values of
an option are taken, `next = pos + consumed`, which is so only if the bundle has used no token before it, and a bundle has
used one only if an earlier letter took a value (`BundleUse`). That is where `Misaligned` comes from: its definition is
what the proof needs and no more.

**`OptionsAreFirst`** (`Spec => OptionsComeFirst`, an action property). `parsing_options` becomes FALSE at a `--` or a positional
*that the loop meets*; one that an option took as a value would be passed by. `FirstInv` adds that while options are parsed
there is no `--` before the token that comes next; the rest of a line, which goes over one, leaves no token after it.

**`ChoicesAreKept`** (`Spec => []ChoicesKept`). An action that succeeds has compared its value; two loops hand over words
without an action. `LoopInv` says whose words each loop takes: only those of arguments the property excepts.

**`NamespaceIsTheLine`**, **`RequiredAreGiven`**, **`DependenciesAreMet`**. All three speak of the end, and rest on what holds from the
first token on of every key that one argument owns (`KeysMatch`): the key is present exactly if the argument was provided
(`Present`), and its entry is made of what was handed over (`Kept`: a list holds all of it, a scalar the last, a count the
occurrences). Between the acceptance of a positional and its first word there is nothing yet (`Begun`). It has to be known
of *every* argument, as a dependency may name one of another parser. `TestsInv` says what the tests passed so far mean in
terms of the line, not of the namespace, so that it stays true when the defaults come; `DefaultsFill` that these fill
exactly what is absent. They do not assume that the line is aligned: wherever a word is read from, it goes to one key.

**`ErrorsAreExplained`** (`Spec => []ErrorsExplained`). All of the above, and two counts. `FilledInv`: the positionals before
`positional_index` are accepted and one of N words among them has N, the one in progress all but `left`, the others none.
`FewInv`: an option of N has at most N words for each acceptance, those still to come counted, so that one that stops early
has fewer. With `TokensInv` the tokens not used at an error of a positional are those from `pos` on, whose number
`clap_parser_stage.c` compares with N. Each failing action then has a lemma (`ConflictFails`, `ValueFails`, `TooManyFails`,
`PositionalFails`, `TestFails`), and `SameTruth` carries what held before the failure to the state after it, which
differs only in the outcome. The first attempt at this proof showed that the property, which every run passed, was not true of all
parsers: it left out required flags with REMAINDER, whose boolean is overwritten by an array, and positionals of
N words whose key another argument or a command writes. It now names both (`Recognisable`, `Contested`); in turn a conflict and
the words of an option are claimed on misaligned lines too.

### Calls within calls

The machine of `Subcommands` is a stack of calls; each of the four theorems has an invariant over all its frames.
**`NothingHeldAlways`**: a frame holds what its stage says it has allocated, and nothing else is held.
**`ErrorNamesCommandAlways`**: the frames stand at the words of `path`, each parser is the one its parent's word names
(`ParserAt`, a recursive function: `TreeEquation` proves that it satisfies its equation, by a least counterexample), and what is
returning failed at the level `failedAt`. **`ValuesByPrecedenceAlways`**: what each frame has in its namespace, and what is
returning, is `ValueFrom` of its level as far as the call has come; the step that matters is the merge, where the value of
a command enters only a key its parent has not. **`TestsSeeTheCommandAlways`**: on top of that, a frame that has come past its
tests has none unmet, the groups it has used are those of its own words, and a call that fails in its tests fails in the one
that `Verdict` names.

### Building a parser

`BuilderInv` (**`BuilderInvariance`**) is an invariant of the parser alone, so that each of the calls is one lemma about the outcome
it computes, for any allocation of it that fails. `Safe` holds whatever fails; `Whole` as long as nothing has: the first
half is what a later call relies on not to use NULL (**`BuilderCrashesExplained`**), the second that the arrays of options and of
positionals list the arguments in order (**`IndexedInOrderAlways`**), also when the help option is taken out of the middle.
**`GroupIdsAreIndicesAlways`** rests on two invariants. An id is taken *before* its group is made (`IdsOf`): there may be more ids
than groups, and an id that is not the place of its group comes after one that was lost. And only the functions of groups
and the setter write the id of an argument, while no call takes an argument out of a list (`MembershipInv`): so one whose id the client
did not set is in the list of the group that has it, through every order of joins and sets, also when the list could not grow.
**`FlagsFollowNargsAlways`** says it of every argument: each setter that touches a flag or `nargs` keeps them in step.

**`LostOnlyTwoWaysAlways`** and **`BuilderTypeOKAlways`** are about the blocks that are out. `MemoryInv` compares their number with
`ParserBlocks`, what `clap_parser_free` would release: never fewer are out, so that no count falls below zero and nothing is
released twice; more are out only after one of the two leaks. The two sides meet because each call *pays* (`Pays`): what it
made less what it released is what the parser owns more, unless the call is one of the two exceptions. What a setter changes of
one argument is a sum with one term changed, a new argument or group one term more, the help option taken out one less
(`MakesBlocks`, `GroupAddedKeeps`, `RemovesBlocks`). For the sum to be that of the arguments the client can use, every one of them has to
be in `parser->arguments`, once, and what `clap_add_subparsers` sets may not be there before it is called (`Tidy`).

**`HelpShownAlways`** (`Spec => []HelpShowsEach`). The sections of ungrouped arguments go by the group id in the argument,
those of groups by the list in the group; so the two must agree, whichever allocation failed between them (`Displayed`). And
an argument must be in one of the arrays of options and positionals, at one place (`IndexedOnce`), which holds also
where `Whole` does not. What is new in either had not been made, and what is in either has been: that is why nothing enters
twice. The rows are then counted (`OccurrencesCount`, `MembershipsCount`).

### The namespace

**`StoreRefines`** (`Spec => Refines`). TLC checks that the store implements `NamespaceSpec` for two keys and arrays
of one; the proof is for all keys, strings and capacities, and any number of namespaces. The refinement mapping is
`Map`: what the getters would tell of each namespace. `StoreInv` says what the mapping needs: every namespace that
exists is a `GoodStore` (no array beyond its capacity, capacities at least 1, a tag that says what the union holds),
and a merge is between two different ones. `EnsuredOutcome` says that `ensure_value` finds the first entry with the
key or appends one; `EntryWritten` that writing the entry it returns changes what is held for that key alone, which
is where a second entry with the same key or a key that could not be copied would break it; the lemmas `...Effect` that
each call then does what the specification allows, also if any subset of its allocations fails; `CopyStep` that a
merge does nothing but such calls. **`WithinCapacityAlways`** (`Spec => []WithinCapacity`) follows from `StoreInv`.

**`OneFamilyAlways`** (`Spec => []OneFamily`). `FamilyInv` adds that malloc and free are of one family, and that before
the lock is set no block lives and no namespace exists that could be freed. `GrownInv` adds that an array another
family's realloc made is one that has grown, which it stays while entries come, change type and go.
**`CrashesExplainedAlways`** (`Spec => []CrashesExplained`) needs all of the above and `CrashInv`: as long as no allocation
has failed no key is NULL, and only blocks of malloc's family live, so that a foreign realloc is one that differs from
malloc.

**`MergeIsUnionAlways`** (`Spec => MergeIsUnion`, an action property). `MergeIsUnion` compares the destination at the end of a merge with
`before`, what it held at the start. `UnionInv` says what it holds in between, as long as no allocation has failed
(`SoFar`): what it held, and where that is nothing, what the source tells of the keys whose first entry has been visited, of
an array that is being copied the items copied so far (`Brought`). A copy of a scalar writes a key that is not there,
an item is appended to an array the merge itself has begun; that the destination has no such entry
of its own is carried through the copy of an array.

**`TypeOKAlways`** and **`LostOnlyByRetypingAlways`**. As for the builder: at least as many blocks are out as the namespaces own
(`MemoryInv`), and each call accounts for what it makes and frees (`Accounts`) but for one that gives an entry with a string or
an array another type. What the namespaces own is a sum over namespaces of sums over entries.

### The printed help

**`BuffersAlwaysHold`**, for all parsers, texts, widths from 40 on and colours, and however many growths fail;
**`LinesAlwaysFit`**, for as long as none has. `Typed` holds whatever fails: the buffer has room for what is in it and a terminator, and everything that is to be printed is a sequence of
calls. That a metavar stays inside its 64 bytes is an induction over the choices it is made of (`MetavarStep`).
`LayoutInv` adds, as long as no growth has failed, that the lines above the last fit (`AllFit`) and what is known of the line in
progress (`Underway`): before its first word it ends at the indent and `line_len` is 0; after that it began at the indent and is
no longer than indent and `line_len`, which counts bytes and so at least the columns. The name of a row ends before the column of
its text or is followed by a line of its own.

### Folds and sums

The folds of the community modules are recursive functions chosen by `CHOOSE`; of such a function nothing is known before it
is shown that there is one. `Folds_proofs` does this once, for the fold of any function: `FoldExists` and `SumExists` by induction on the
number of places or of members, with the induction of `NaturalsInduction` on a set of numbers (`Inductive`). From there
`SumSplit` (a member apart), `SumChange`, `SumAdd`, `SumWithout`, `SumOfZeros`, `SumOfNaturals`. A sum in the model is the fold of an operator;
a proof about it shows that its recursive function is one of these (`GroupsSum`, `MembershipsSum`), as no backend
instantiates an operator.

Some definitions of the model have the form they have for the proofs' sake: the sum over the groups of both kinds is two
(`GroupBlocks`), the options the usage line leaves to the lists of the groups are a condition (`Ungrouped`), and the counts of the two
families change one after the other (`Allocates`). One was wrong: `ChoicesSet` released a block for each choice counted also
where there is no array, which is the step that crashes instead; the sum did not come out even.

### Only model-checked

- `Terminates`: liveness is outside what TLAPS can prove here.
- What a recursive definition computes for *every* input is proved for the functions named above only; the
  community modules' operators on sequences that the models use otherwise are those TLAPS's library states facts of.

## Not modelled

- *Translation*: one function pointer, set once, through which messages pass. *Version*: a constant.
- The wording of messages, `clap_error_t.message`, and the version line.
- Functions that no code of the library calls: `clap_validate_nargs`, `clap_argument_validate`,
  `clap_expand_short_bundle`, `clap_color_visual_length`, `clap_buffer_copy`, `clap_buffer_truncate`.
- The 256-byte key of `clap_find_option_best_match`, which cuts longer option names; the characters of a word.
- Overflow of a counter: a command line of 2^31 options cannot be given. The overflow test of `clap_calloc`: no
  size in the library comes near it.
- The code a client hands over: type handlers and custom actions are modelled by one example of the repository.
- The type handler that an argument caches at its first conversion: it needs a client that changes the type of an
  argument between two parses.

## Plan

Done: `ParseArgs`, `Subcommands`, `NamespaceStore` with `NamespaceSpec`, `Allocator`, `ParserBuilder`, `HelpSections`,
`HelpLayout`; proofs of all their safety properties. What is left, in the order of what matters most:

1. `CommandLine`, an abstract specification of a parse (the line is cut into options with their values, positionals and
   the rest; each piece is stored once), with `ParseArgs` shown to implement it on aligned lines.
2. The result of `ParserBuilder` as a `ParserSpec`, so that `ParsersAssumption` becomes a theorem about the builder
   (`IndexedInOrder` is the greater part of it).
3. `Tokenizer`: words as sequences of character classes, so that the assumptions on `TokenOf` become its properties.
