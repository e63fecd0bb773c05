----------------------------- MODULE ParseArgs ------------------------------
(***************************************************************************)
(* One call of clap_parse_args on a configured parser: the pattern         *)
(* analysis, the parse stage (clap_parse_with_pattern and the two option   *)
(* functions it calls), the tests that follow it and the defaults.         *)
(*                                                                         *)
(* An action is one iteration of the parse stage's loop, one option of a   *)
(* bundle, one value of an argument that takes several, or one test.       *)
(* Tokens are numbered from 1, positional_index from 0 as in the source.   *)
(* Allocation succeeds.  Nothing is shared and nothing runs concurrently:  *)
(* the nondeterminism is the command line, the parser it meets, the result *)
(* of a subcommand's own parse, and what a read past the tokens returns.   *)
(***************************************************************************)
EXTENDS ClapParser

CONSTANTS
    ParserId,   \* the parsers explored, by name
    Parsers,    \* the configuration of each
    Lines,      \* the command lines explored, argv[0] left out
    SubReturns  \* what the parse of a subcommand may return

\* clap_add_argument makes a new argument and lists it once, as optional or as
\* positional, and among all the arguments of the parser.
ASSUME ParsersAssumption ==
    /\ Parsers \in [ParserId -> ParserSpec]
    /\ \A q \in ParserId :
          LET p == Parsers[q]
          IN  /\ Registered(p) \cap PositionalArgs(p) = {}
              /\ Registered(p) \cup PositionalArgs(p)
                     = {p.arguments[i] : i \in DOMAIN p.arguments}
              /\ \A i, j \in DOMAIN p.positionals :
                    p.positionals[i] = p.positionals[j] => i = j

ASSUME LinesAssumption == Lines \subseteq Seq(Word)

Result == {"SUCCESS", "ERROR", "HELP", "VERSION"}

ASSUME SubReturnsAssumption ==
    SubReturns \subseteq [result : Result, error : ErrorCode, ns : Namespace]

VARIABLES
    parser, line,      \* the inputs: they never change
    phase,             \* where clap_parse_args is
    pos,               \* the token the parse stage is at
    positionalIndex,   \* how many positionals are filled
    parsingOptions,    \* no positional and no "--" met yet
    bundleAt,          \* parse_short_bundle: the letter it is at
    bundleTotal,       \* parse_short_bundle: total_consumed
    current,           \* the argument whose further values are being taken
    consumed,          \* parse_single_option: *consumed
    next, left,        \* the next of these values, and how many are left
    ns,                \* the namespace
    groupUsed,         \* mutex_group_used
    result, error,     \* what the caller gets
    subcommandName     \* error->subcommand_name

\* History: read by the properties alone.
VARIABLES
    claims,       \* how often each token was used up
    occurrences,  \* how often each option or positional was accepted
    given,        \* the values handed to each argument, in order
    asOption,     \* the tokens taken for options
    overrun       \* a token past the last was read

inputs == <<parser, line>>
stageVars == <<pos, positionalIndex, parsingOptions>>
bundleVars == <<bundleAt, bundleTotal>>
loopVars == <<current, consumed, next, left>>
store == <<ns, groupUsed>>
outcome == <<result, error, subcommandName>>
history == <<claims, occurrences, given, asOption, overrun>>
vars == <<inputs, phase, stageVars, bundleVars, loopVars, store, outcome, history>>

Phase == {"analyze", "stage", "option_values", "positional_values", "rest",
          "subcommand", "required_positionals", "required_options",
          "positional_nargs", "required_groups", "dependencies", "defaults",
          "done", "crashed"}

-----------------------------------------------------------------------------
P == Parsers[parser]
N == Len(line)
Tok(i) == TokenOf[line[i]]

Init ==
    /\ parser \in ParserId
    /\ line \in Lines
    /\ phase = "analyze"
    /\ pos = 1 /\ positionalIndex = 0 /\ parsingOptions = TRUE
    /\ bundleAt = 1 /\ bundleTotal = 1
    /\ current = NoArg /\ consumed = 0 /\ next = 0 /\ left = 0
    /\ ns = NewNamespace
    /\ groupUsed = [g \in GroupId |-> FALSE]
    /\ result = "NONE" /\ error = "NONE" /\ subcommandName = NoWord
    /\ claims = [i \in 1..Len(line) |-> 0]
    /\ occurrences = [a \in Arg |-> 0]
    /\ given = [a \in Arg |-> << >>]
    /\ asOption = {}
    /\ overrun = FALSE

\* Every error path frees the locals and returns; their last values are kept.
Fail(code) ==
    /\ phase' = "done"
    /\ result' = "ERROR"
    /\ error' = code
    /\ UNCHANGED <<inputs, stageVars, bundleVars, loopVars, store,
                   subcommandName, history>>

-----------------------------------------------------------------------------
(***************************************************************************)
(* clap_analyze_pattern.  It looks up the options before the first         *)
(* positional word or "--"; a bundle is not looked up, and neither is a    *)
(* one-letter option that reads as a negative number.                      *)
(***************************************************************************)
OptionRegion ==
    {i \in 1..N : \A j \in 1..i : Tok(j).kind \notin {"POSITIONAL", "STOP"}}

\* Mutation for UnknownFoundFirst: long options are not looked up.
LookedUpShort(i) == Tok(i).kind = "SHORT_OPTION" /\ line[i] \notin NegativeNumber

LookedUp(i) ==
    \/ Tok(i).kind \in {"LONG_OPTION", "LONG_OPTION_EQ"}
    \/ Tok(i).kind = "SHORT_OPTION" /\ line[i] \notin NegativeNumber

PatternRejects ==
    \E i \in OptionRegion :
        LookedUp(i) /\ Lookup(P, Tok(i)) \in {NoArg, AmbiguousArg}

AnalyzeRejects ==
    /\ phase = "analyze"
    /\ PatternRejects
    /\ Fail("UNRECOGNIZED")

AnalyzeAccepts ==
    /\ phase = "analyze"
    /\ ~PatternRejects
    /\ phase' = "stage"
    /\ UNCHANGED <<inputs, stageVars, bundleVars, loopVars, store, outcome, history>>

-----------------------------------------------------------------------------
(***************************************************************************)
(* The head of the parse stage's loop.                                     *)
(***************************************************************************)
AtToken == phase = "stage" /\ pos <= N

\* Mutation for OptionsComeFirst: "--" and positionals do not end the options.
AtOptionAnywhere == AtToken /\ Tok(pos).kind \notin {"STOP", "POSITIONAL"}

AtOption ==
    /\ AtToken
    /\ parsingOptions
    /\ Tok(pos).kind \notin {"STOP", "POSITIONAL"}

AtPositional ==
    /\ AtToken
    /\ Tok(pos).kind # "STOP"
    /\ ~parsingOptions \/ Tok(pos).kind = "POSITIONAL"

Claim(S) == claims' = [i \in 1..N |-> IF i \in S THEN claims[i] + 1 ELSE claims[i]]

Give(a, w) ==
    given' = IF w = NoWord THEN given ELSE [given EXCEPT ![a] = Append(@, w)]

StopToken ==
    /\ AtToken
    /\ Tok(pos).kind = "STOP"
    /\ parsingOptions' = FALSE
    /\ pos' = pos + 1
    /\ Claim({pos})
    /\ UNCHANGED <<inputs, phase, positionalIndex, bundleVars, loopVars, store,
                   outcome, occurrences, given, asOption, overrun>>

\* Mutation for Terminates: the end is missed when the last option overshoots it.
EndOfLineExactly ==
    /\ phase = "stage"
    /\ pos = N + 1
    /\ phase' = "required_positionals"
    /\ UNCHANGED <<inputs, stageVars, bundleVars, loopVars, store, outcome, history>>

EndOfLine ==
    /\ phase = "stage"
    /\ pos > N
    /\ phase' = "required_positionals"
    /\ UNCHANGED <<inputs, stageVars, bundleVars, loopVars, store, outcome, history>>

-----------------------------------------------------------------------------
(***************************************************************************)
(* parse_single_option, called on the option at pos or, by                 *)
(* parse_short_bundle, on each letter of the bundle at pos.  A bundle      *)
(* passes the token after those it has used as next_token, and the count   *)
(* of tokens from pos on as remaining whatever it has used.                *)
(***************************************************************************)
InBundle == Tok(pos).kind = "SHORT_OPTION_BUNDLE"

OptionToken == IF InBundle THEN TokenOf[Tok(pos).chars[bundleAt]] ELSE Tok(pos)

Following == pos + bundleTotal     \* next_token, NULL when it is past N
Remaining == N - pos + 1

InGroup(arg) == arg.group # NoGroup /\ P.groups # {}

Conflicting(arg) == InGroup(arg) /\ groupUsed[arg.group]

\* Mutation for MutexExclusive: the group is not marked as used.
MarkNothing(arg) == groupUsed' = groupUsed

MarkGroup(arg) ==
    groupUsed' = IF InGroup(arg) THEN [groupUsed EXCEPT ![arg.group] = TRUE]
                                 ELSE groupUsed

UnknownOption ==
    /\ AtOption
    /\ Lookup(P, OptionToken) \in {NoArg, AmbiguousArg}
    /\ Fail("UNRECOGNIZED")

FoundOption(a) == AtOption /\ Lookup(P, OptionToken) = a

ConflictingOption ==
    \E a \in Arg :
        /\ FoundOption(a)
        /\ Conflicting(P.spec[a])
        /\ Fail("MUTUALLY_EXCLUSIVE")

\* --help and --version: the text is printed and the parse is over.
InformationOption ==
    \E a \in Arg :
        /\ FoundOption(a)
        /\ ~Conflicting(P.spec[a])
        /\ P.spec[a].action \in {"HELP", "VERSION"}
        /\ phase' = "done"
        /\ result' = P.spec[a].action
        /\ UNCHANGED <<inputs, stageVars, bundleVars, loopVars, store, error,
                       subcommandName, history>>

WantsNext(arg) ==
    /\ OptionToken.kind # "LONG_OPTION_EQ"
    /\ NeedsValue(arg)
    /\ Remaining > 1

NextIsValue ==
    /\ Following <= N
    /\ Tok(Following).kind = "POSITIONAL" \/ line[Following] \in NegativeNumber

TakesNext(arg) == WantsNext(arg) /\ NextIsValue

OptionValue(arg) ==
    IF OptionToken.kind = "LONG_OPTION_EQ" THEN OptionToken.value
    ELSE IF TakesNext(arg) THEN line[Following] ELSE NoWord

Width(arg) == IF TakesNext(arg) THEN 2 ELSE 1

\* Mutation for TypeOK: an option at the end of the line takes an empty rest.
TakesAnyRest(arg) == arg.nargs = REMAINDER /\ Following <= N

\* The rest of the line goes to an option with nargs REMAINDER.
TakesRest(arg) == arg.nargs = REMAINDER /\ Remaining > Width(arg)

\* The error parse_single_option returns before it takes further values.
OptionError(arg) ==
    CASE WantsNext(arg) /\ Following > N -> "INVALID_ARGUMENT"
      [] WantsNext(arg) /\ Following <= N /\ ~NextIsValue
            /\ arg.nargs # ZERO_OR_ONE -> "MISSING_VALUE"
      [] OTHER ->
            IF ActionError(arg, OptionValue(arg)) # "NONE"
            THEN ActionError(arg, OptionValue(arg))
            ELSE IF (arg.nargs > 1 \/ TakesRest(arg)) /\ Following > N
                 THEN "INVALID_ARGUMENT" ELSE "NONE"

UsableOption(a) ==
    /\ FoundOption(a)
    /\ ~Conflicting(P.spec[a])
    /\ P.spec[a].action \notin {"HELP", "VERSION"}

RejectedOption ==
    \E a \in Arg :
        /\ UsableOption(a)
        /\ OptionError(P.spec[a]) # "NONE"
        /\ Fail(OptionError(P.spec[a]))

\* The option is accepted: its group is marked and its action runs.
ApplyOption(a) ==
    LET arg == P.spec[a]
        w   == OptionValue(arg)
    IN  /\ UsableOption(a)
        /\ OptionError(arg) = "NONE"
        /\ MarkGroup(arg)
        /\ ns' = [ns EXCEPT ![arg.dest] = Applied(arg, w, @)]
        /\ Claim((IF bundleAt = 1 THEN {pos} ELSE {})
                 \cup (IF TakesNext(arg) THEN {Following} ELSE {}))
        /\ Give(a, w)
        /\ occurrences' = [occurrences EXCEPT ![a] = @ + 1]
        /\ asOption' = asOption \cup {pos}
        /\ UNCHANGED <<inputs, positionalIndex, parsingOptions, outcome, overrun>>

\* Mutation for TokensUsedOnce: a bundle forgets the values its letters took.
LeaveOptionForgetting(c) ==
    /\ phase' = "stage"
    /\ IF InBundle /\ bundleAt < Len(Tok(pos).chars)
       THEN bundleAt' = bundleAt + 1 /\ pos' = pos
       ELSE bundleAt' = 1 /\ pos' = pos + c
    /\ bundleTotal' = 1

\* The option used c tokens, its own included: on to the next one.
LeaveOption(c) ==
    /\ phase' = "stage"
    /\ IF InBundle /\ bundleAt < Len(Tok(pos).chars)
       THEN /\ bundleAt' = bundleAt + 1
            /\ bundleTotal' = bundleTotal + c - 1
            /\ pos' = pos
       ELSE /\ bundleAt' = 1
            /\ bundleTotal' = 1
            /\ pos' = pos + bundleTotal + c - 1

Option ==
    \E a \in Arg :
        /\ ApplyOption(a)
        /\ P.spec[a].nargs <= 1
        /\ ~TakesRest(P.spec[a])
        /\ LeaveOption(Width(P.spec[a]))
        /\ UNCHANGED loopVars

OptionWithValues ==
    \E a \in Arg :
        /\ ApplyOption(a)
        /\ P.spec[a].nargs > 1
        /\ phase' = "option_values"
        /\ current' = a
        /\ consumed' = Width(P.spec[a])
        /\ next' = Following + 1
        /\ left' = P.spec[a].nargs - 1
        /\ UNCHANGED <<pos, bundleVars>>

OptionWithRest ==
    \E a \in Arg :
        /\ ApplyOption(a)
        /\ TakesRest(P.spec[a])
        /\ phase' = "rest"
        /\ current' = a
        /\ consumed' = Remaining
        /\ next' = Following + Width(P.spec[a]) - 1
        /\ left' = Remaining - Width(P.spec[a])
        /\ UNCHANGED <<pos, bundleVars>>

-----------------------------------------------------------------------------
(***************************************************************************)
(* The second and later values of an option with nargs N > 1.  The loop    *)
(* compares the tokens consumed with those remaining, but reads at a       *)
(* distance from next_token: the two disagree when the first value was not *)
(* next_token, or when the bundle has used tokens.  A read past the tokens *)
(* is undefined: it may crash, or find a NULL word.                        *)
(***************************************************************************)
ReadPastEnd ==
    /\ \/ phase = "option_values" /\ consumed + 1 <= Remaining
       \/ phase = "rest"
    /\ next > N

Crash ==
    /\ ReadPastEnd
    /\ phase' = "crashed"
    /\ overrun' = TRUE
    /\ UNCHANGED <<inputs, stageVars, bundleVars, loopVars, store, outcome,
                   claims, occurrences, given, asOption>>

WordAt(i) == IF i <= N THEN line[i] ELSE NoWord

\* Mutation for ReadsInRange: the tokens that remain are not counted.
OptionValueErrorUncounted(arg) ==
    IF next <= N /\ Tok(next).kind = "STOP" THEN "TOO_FEW_ARGS"
    ELSE ActionError(arg, WordAt(next))

\* What is wrong with the next value, if anything.
OptionValueError(arg) ==
    IF consumed + 1 > Remaining \/ (next <= N /\ Tok(next).kind = "STOP")
    THEN "TOO_FEW_ARGS"
    ELSE ActionError(arg, WordAt(next))

RejectedValue ==
    /\ phase = "option_values"
    /\ OptionValueError(P.spec[current]) # "NONE"
    /\ Fail(OptionValueError(P.spec[current]))

NextOptionValue ==
    LET arg == P.spec[current]
    IN  /\ phase = "option_values"
        /\ OptionValueError(arg) = "NONE"
        /\ ns' = [ns EXCEPT ![arg.dest] = Applied(arg, WordAt(next), @)]
        /\ consumed' = consumed + 1
        /\ next' = next + 1
        /\ left' = left - 1
        /\ IF left = 1 THEN LeaveOption(consumed + 1)
                       ELSE UNCHANGED <<phase, pos, bundleVars>>
        /\ Claim({next})
        /\ Give(current, WordAt(next))
        /\ overrun' = (overrun \/ next > N)
        /\ UNCHANGED <<inputs, positionalIndex, parsingOptions, current, groupUsed,
                       outcome, occurrences, asOption>>

(***************************************************************************)
(* nargs REMAINDER, of an option or a positional: every word to the end of *)
(* the line but "--" is appended, whatever the argument's action.          *)
(***************************************************************************)
RestWord ==
    LET d == P.spec[current].dest
        w == IF next <= N /\ Tok(next).kind = "STOP" THEN NoWord ELSE WordAt(next)
    IN  /\ phase = "rest"
        /\ ns' = IF w = NoWord THEN ns ELSE [ns EXCEPT ![d] = Appended(@, w)]
        /\ next' = next + 1
        /\ left' = left - 1
        /\ IF left > 1
           THEN UNCHANGED <<phase, pos, bundleVars>>
           ELSE IF parsingOptions
           THEN LeaveOption(consumed)
           ELSE phase' = "required_positionals" /\ UNCHANGED <<pos, bundleVars>>
        /\ Claim({next})
        /\ Give(current, w)
        /\ overrun' = (overrun \/ next > N)
        /\ UNCHANGED <<inputs, positionalIndex, parsingOptions, current, consumed,
                       groupUsed, outcome, occurrences, asOption>>

-----------------------------------------------------------------------------
(***************************************************************************)
(* A word that is not an option: a subcommand's name, or the next          *)
(* positional's value.                                                     *)
(***************************************************************************)
NamesCommand == positionalIndex = 0 /\ line[pos] \in P.commands

EnterSubcommand ==
    /\ AtPositional
    /\ NamesCommand
    /\ phase' = "subcommand"
    /\ parsingOptions' = FALSE
    /\ UNCHANGED <<inputs, pos, positionalIndex, bundleVars, loopVars, store,
                   outcome, history>>

\* The subcommand's parser has parsed the words after its name.
SubcommandReturns(r) ==
    /\ phase = "subcommand"
    /\ IF r.result = "SUCCESS"
       THEN /\ phase' = "required_positionals"
            /\ ns' = Merged([ns EXCEPT ![P.commandDest] = StringValue(line[pos])], r.ns)
            /\ UNCHANGED outcome
       ELSE /\ phase' = "done"
            /\ result' = r.result
            /\ error' = r.error
            /\ subcommandName' = line[pos]
            /\ UNCHANGED ns
    /\ UNCHANGED <<inputs, stageVars, bundleVars, loopVars, groupUsed, history>>

\* Mutation for ErrorsExplained: the last positional is never reached.
TooManyTooSoon ==
    /\ AtPositional
    /\ ~NamesCommand
    /\ positionalIndex + 1 >= Len(P.positionals)
    /\ Fail("TOO_MANY_ARGS")

TooManyArguments ==
    /\ AtPositional
    /\ ~NamesCommand
    /\ positionalIndex >= Len(P.positionals)
    /\ Fail("TOO_MANY_ARGS")

AtPositionalOf(a) ==
    /\ AtPositional
    /\ ~NamesCommand
    /\ positionalIndex < Len(P.positionals)
    /\ P.positionals[positionalIndex + 1] = a

\* The argument's choices are compared with the first word it takes.
PositionalError(arg) ==
    IF ChoiceRejects(arg, line[pos]) THEN "INVALID_CHOICE"
    ELSE IF arg.nargs > 1
    THEN IF pos - 1 + arg.nargs > N THEN "TOO_FEW_ARGS" ELSE "NONE"
    ELSE IF arg.nargs = REMAINDER \/ Multiple(arg) THEN "NONE"
    ELSE ActionError(arg, line[pos])

RejectedPositional ==
    \E a \in Arg :
        /\ AtPositionalOf(a)
        /\ PositionalError(P.spec[a]) # "NONE"
        /\ Fail(PositionalError(P.spec[a]))

AcceptPositional(a) ==
    /\ AtPositionalOf(a)
    /\ PositionalError(P.spec[a]) = "NONE"
    /\ parsingOptions' = FALSE
    /\ occurrences' = [occurrences EXCEPT ![a] = @ + 1]
    /\ UNCHANGED <<inputs, bundleVars, consumed, groupUsed, outcome, asOption, overrun>>

\* Nothing but the argument in progress is recorded before its words are taken.
BeginWords(a, count, where) ==
    /\ phase' = where
    /\ current' = a
    /\ next' = pos
    /\ left' = count
    /\ UNCHANGED <<pos, positionalIndex, ns, claims, given>>

PositionalRest ==
    \E a \in Arg :
        /\ AcceptPositional(a)
        /\ P.spec[a].nargs = REMAINDER
        /\ BeginWords(a, N - pos + 1, "rest")

PositionalValues ==
    \E a \in Arg :
        /\ AcceptPositional(a)
        /\ P.spec[a].nargs > 1
        /\ BeginWords(a, P.spec[a].nargs, "positional_values")

\* One of the N words of a positional: appended as it is, "--" included.
NextPositionalValue ==
    LET arg == P.spec[current]
    IN  /\ phase = "positional_values"
        /\ ns' = [ns EXCEPT ![arg.dest] = Appended(@, line[next])]
        /\ next' = next + 1
        /\ left' = left - 1
        /\ IF left = 1
           THEN /\ phase' = "stage"
                /\ pos' = pos + arg.nargs
                /\ positionalIndex' = positionalIndex + 1
           ELSE UNCHANGED <<phase, pos, positionalIndex>>
        /\ Claim({next})
        /\ Give(current, line[next])
        /\ UNCHANGED <<inputs, parsingOptions, bundleVars, current, consumed, groupUsed,
                       outcome, occurrences, asOption, overrun>>

\* A word of a '*' or '+' positional, which takes every word that follows too.
PositionalOneOfMany ==
    \E a \in Arg :
        LET arg == P.spec[a]
        IN  /\ AcceptPositional(a)
            /\ arg.nargs \in {ZERO_OR_MORE, ONE_OR_MORE}
            /\ ns' = [ns EXCEPT ![arg.dest] = Appended(@, line[pos])]
            /\ pos' = pos + 1
            /\ Claim({pos})
            /\ Give(a, line[pos])
            /\ UNCHANGED <<phase, positionalIndex, current, next, left>>

PositionalSingle ==
    \E a \in Arg :
        LET arg == P.spec[a]
        IN  /\ AcceptPositional(a)
            /\ arg.nargs # REMAINDER
            /\ ~Multiple(arg)
            /\ ns' = [ns EXCEPT ![arg.dest] = Applied(arg, line[pos], @)]
            /\ pos' = pos + 1
            /\ positionalIndex' = positionalIndex + 1
            /\ Claim({pos})
            /\ Give(a, line[pos])
            /\ UNCHANGED <<phase, current, next, left>>

-----------------------------------------------------------------------------
(***************************************************************************)
(* The tests after the parse stage, in their order, and the defaults.      *)
(***************************************************************************)
Pass(there) ==
    /\ phase' = there
    /\ UNCHANGED <<inputs, stageVars, bundleVars, loopVars, store, outcome, history>>

CheckRequiredPositionals ==
    /\ phase = "required_positionals"
    /\ IF \E i \in DOMAIN P.positionals : PositionalMissing(P.spec[P.positionals[i]], ns)
       THEN Fail("REQUIRED_MISSING")
       ELSE Pass("required_options")

CheckRequiredOptions ==
    /\ phase = "required_options"
    /\ IF \E i \in DOMAIN P.optionals : OptionMissing(P.spec[P.optionals[i]], ns)
       THEN Fail("REQUIRED_MISSING")
       ELSE Pass("positional_nargs")

CheckPositionalNargs ==
    /\ phase = "positional_nargs"
    /\ LET ErrorOf(i) == NargsError(P.spec[P.positionals[i]], ns)
           bad == {i \in DOMAIN P.positionals : ErrorOf(i) # "NONE"}
       IN  \/ \E i \in bad : (\A j \in bad : i <= j) /\ Fail(ErrorOf(i))
           \/ bad = {} /\ Pass("required_groups")

\* Mutation for RequiredGroupGiven: the groups are not looked at.
CheckNoGroups == phase = "required_groups" /\ Pass("dependencies")

CheckRequiredGroups ==
    /\ phase = "required_groups"
    /\ IF \E g \in P.requiredGroups : ~groupUsed[g]
       THEN Fail("REQUIRED_MISSING")
       ELSE Pass("dependencies")

CheckDependencies ==
    /\ phase = "dependencies"
    /\ IF DependencyViolated(P, ns) THEN Fail("DEPENDENCY_VIOLATION")
                                    ELSE Pass("defaults")

DefaultRejected ==
    \E i \in Defaulting(P, ns) : DefaultFails(P.spec[P.arguments[i]])

ApplyDefaults ==
    /\ phase = "defaults"
    /\ \/ DefaultRejected /\ Fail("TYPE_CONVERSION")
       \/ /\ ~DefaultRejected
          /\ ns' = WithDefaults(P, ns)
          /\ result' = "SUCCESS"
          /\ phase' = "done"
          /\ UNCHANGED <<inputs, stageVars, bundleVars, loopVars, groupUsed, error,
                         subcommandName, history>>

\* The call has returned, or the process is gone.
Returned == phase \in {"done", "crashed"} /\ UNCHANGED vars

Next ==
    \/ AnalyzeRejects \/ AnalyzeAccepts
    \/ StopToken \/ EndOfLine
    \/ UnknownOption \/ ConflictingOption \/ InformationOption \/ RejectedOption
    \/ Option \/ OptionWithValues \/ OptionWithRest
    \/ Crash \/ RejectedValue \/ NextOptionValue \/ RestWord
    \/ EnterSubcommand \/ \E r \in SubReturns : SubcommandReturns(r)
    \/ TooManyArguments \/ RejectedPositional
    \/ PositionalRest \/ PositionalValues \/ NextPositionalValue
    \/ PositionalOneOfMany \/ PositionalSingle
    \/ CheckRequiredPositionals \/ CheckRequiredOptions \/ CheckPositionalNargs
    \/ CheckRequiredGroups \/ CheckDependencies \/ ApplyDefaults
    \/ Returned

\* One thread runs the call: it always takes its next step.
Spec == Init /\ [][Next]_vars /\ WF_vars(Next)

-----------------------------------------------------------------------------
(***************************************************************************)
(* Properties.                                                             *)
(***************************************************************************)
TypeOK ==
    /\ parser \in ParserId
    /\ line \in Seq(Word)
    /\ phase \in Phase
    /\ pos \in Nat \ {0}
    /\ positionalIndex \in Nat
    /\ parsingOptions \in BOOLEAN
    /\ bundleAt \in Nat \ {0}
    /\ bundleTotal \in Nat \ {0}
    /\ current \in Arg \cup {NoArg}
    /\ consumed \in Nat
    /\ next \in Nat
    /\ left \in Nat
    /\ ns \in Namespace
    /\ groupUsed \in [GroupId -> BOOLEAN]
    /\ result \in Result \cup {"NONE"}
    /\ error \in ErrorCode
    /\ subcommandName \in Word \cup {NoWord}
    /\ claims \in [1..Len(line) -> Nat]
    /\ occurrences \in [Arg -> Nat]
    /\ given \in [Arg -> Seq(Word)]
    /\ asOption \subseteq Nat
    /\ overrun \in BOOLEAN

Optionals == Registered(P)
Positionals == PositionalArgs(P)

\* No other argument writes the key of a.
OwnsKey(a) ==
    /\ P.spec[a].dest # P.commandDest
    /\ \A b \in Optionals \cup Positionals :
          P.spec[b].dest = P.spec[a].dest => b = a

Succeeded == result = "SUCCESS"

\* The whole line was parsed by this parser, none of it by a subcommand's.
OwnLine == P.commands = {}

\* a was accepted, and with a value if its action stores one.
Provided(a) ==
    /\ occurrences[a] > 0
    /\ P.spec[a].action \in {"STORE", "APPEND", "CUSTOM"} => given[a] # << >>

(***************************************************************************)
(* The command lines on which parse_single_option looks for further values *)
(* in the wrong place: an option of N values has had its first one with    *)
(* '=', or its action takes none, or an earlier letter of the bundle has   *)
(* taken one (of which an option with nargs REMAINDER suffers too).        *)
(***************************************************************************)
TakesN(a) == a \in Arg /\ P.spec[a].nargs > 1
TakesMore(a) == TakesN(a) \/ (a \in Arg /\ P.spec[a].nargs = REMAINDER)

Misaligned ==
    \E i \in 1..N :
        LET found     == Lookup(P, Tok(i))
            letter(k) == Lookup(P, TokenOf[Tok(i).chars[k]])
        IN  \/ /\ Tok(i).kind \in {"LONG_OPTION", "LONG_OPTION_EQ", "SHORT_OPTION"}
               /\ TakesN(found)
               /\ Tok(i).kind = "LONG_OPTION_EQ" \/ ~NeedsValue(P.spec[found])
            \/ /\ Tok(i).kind = "SHORT_OPTION_BUNDLE"
               /\ \E k \in DOMAIN Tok(i).chars :
                     \/ TakesN(letter(k)) /\ ~NeedsValue(P.spec[letter(k)])
                     \/ /\ TakesMore(letter(k))
                        /\ \E m \in 1..(k - 1) :
                              letter(m) \in Arg /\ NeedsValue(P.spec[letter(m)])

(***************************************************************************)
(* A parse that succeeds has used every token exactly once, as an option,  *)
(* as a value or as the "--" separator: none is dropped and none is given  *)
(* to two arguments.  Tokens after a subcommand's name are that parser's.  *)
(***************************************************************************)
TokensUsedOnce ==
    Succeeded /\ ~Misaligned =>
        \A i \in 1..N :
            \/ claims[i] = 1
            \/ claims[i] = 0 /\ pos <= i /\ line[pos] \in P.commands

(***************************************************************************)
(* next_token[i] and tokens[pos + i] stay inside the token array.          *)
(***************************************************************************)
ReadsInRange == ~Misaligned => ~overrun

(***************************************************************************)
(* At no time have two options of one mutually exclusive group been        *)
(* accepted, nor one of them twice (clap_mutex_check_conflict).            *)
(***************************************************************************)
MutexExclusive ==
    \A a, b \in Optionals :
        /\ InGroup(P.spec[a])
        /\ P.spec[a].group = P.spec[b].group
        /\ occurrences[a] > 0
        /\ occurrences[b] > 0
        => a = b /\ occurrences[a] = 1

(***************************************************************************)
(* A parse that succeeds has accepted an option of every required group.   *)
(***************************************************************************)
RequiredGroupGiven ==
    Succeeded =>
        \A g \in P.requiredGroups :
            \E a \in Optionals : P.spec[a].group = g /\ occurrences[a] > 0

\* check_required_positional, check_required_option: arguments that must be given.
Required(a) ==
    IF a \in Optionals THEN P.spec[a].required
    ELSE P.spec[a].nargs \notin {ZERO_OR_ONE, ZERO_OR_MORE, REMAINDER}

(***************************************************************************)
(* What a parse that succeeds requires was on the command line: a default, *)
(* which is applied later, never stands in for it.                         *)
(***************************************************************************)
RequiredGiven ==
    Succeeded /\ OwnLine =>
        \A a \in Optionals \cup Positionals :
            Required(a) /\ OwnsKey(a) => Provided(a)

(***************************************************************************)
(* "Required" is reported only when something required was not given, for  *)
(* arguments that check_required_positional and check_required_option can  *)
(* recognise: the others have a value of a type these do not look for.     *)
(***************************************************************************)
Recognisable(a) ==
    LET arg == P.spec[a]
    IN  CASE a \in Positionals ->
                 Multiple(arg) \/ (arg.action = "STORE"
                     /\ arg.type \notin {"int", "float", "bool"})
          [] a \in Optionals /\ Multiple(arg) -> arg.action = "APPEND"
          [] OTHER -> /\ arg.nargs # REMAINDER
                      /\ \/ arg.action \in {"STORE_TRUE", "STORE_FALSE", "COUNT"}
                         \/ /\ arg.action \in {"STORE", "STORE_CONST"}
                            /\ arg.type \notin {"int", "float", "bool"}

MissingIsMissing ==
    error = "REQUIRED_MISSING" /\ OwnLine =>
        \/ \E g \in P.requiredGroups : ~groupUsed[g]
        \/ \E a \in Optionals \cup Positionals :
              Required(a) /\ (~Provided(a) \/ ~OwnsKey(a) \/ ~Recognisable(a))

(***************************************************************************)
(* A parse that succeeds meets every declared dependency, judged by what   *)
(* was on the command line and not by what the defaults put in later.      *)
(***************************************************************************)
DependenciesMet ==
    Succeeded /\ OwnLine =>
        \A a \in Optionals \cup Positionals :
            OwnsKey(a) /\ Provided(a) =>
                /\ \A b \in P.spec[a].requires : OwnsKey(b) => Provided(b)
                /\ \A b \in P.spec[a].conflicts : OwnsKey(b) => ~Provided(b)

(***************************************************************************)
(* The namespace of a parse that succeeds says what the command line said: *)
(* a list holds every value in order, a scalar the last one, a count the   *)
(* occurrences, and a key nobody wrote and nothing defaults is absent.  An *)
(* option with nargs REMAINDER that is not an APPEND is excepted: its      *)
(* first value is stored as a scalar, which the rest of the line replaces. *)
(***************************************************************************)
ListKept(a) ==
    \/ P.spec[a].action = "APPEND"
    \/ a \in Positionals /\ (Multiple(P.spec[a]) \/ P.spec[a].nargs = REMAINDER)

LastKept(a) ==
    P.spec[a].action = "STORE" /\ ~Multiple(P.spec[a]) /\ P.spec[a].nargs # REMAINDER

Counted(a) ==
    /\ P.spec[a].action = "COUNT"
    /\ P.spec[a].nargs <= 1 /\ P.spec[a].nargs # REMAINDER
    /\ ~ListKept(a)

NamespaceMatchesLine ==
    Succeeded /\ OwnLine =>
        \A a \in Optionals \cup Positionals :
            LET arg == P.spec[a]
                v   == ns[arg.dest]
            IN  OwnsKey(a) =>
                  IF ~Provided(a)
                  THEN v.type = "ABSENT" <=> ~HasDefault(arg)
                  ELSE /\ ListKept(a) => v.type = "ARRAY" /\ v.items = given[a]
                       /\ LastKept(a) =>
                             v = Converted(arg.type, given[a][Len(given[a])])
                       /\ Counted(a) => v.type = "INT" /\ v.num = occurrences[a]

(***************************************************************************)
(* Every value an argument with choices accepts is one of them, unless the *)
(* argument takes the rest of the line or is a positional of N words: of   *)
(* these only the first word is compared with the choices.                 *)
(***************************************************************************)
ChoicesKept ==
    \A a \in Optionals \cup Positionals :
        LET arg == P.spec[a]
        IN  /\ arg.choices # {}
            /\ arg.nargs # REMAINDER
            /\ a \in Positionals => arg.nargs <= 1
            => \A i \in DOMAIN given[a] : given[a][i] \in arg.choices

(***************************************************************************)
(* After "--" or the first positional, no word is an option any more.      *)
(***************************************************************************)
OptionsComeFirst ==
    [][ asOption' # asOption /\ ~Misaligned =>
            /\ \A a \in Positionals : occurrences[a] = 0
            /\ \A i \in 1..(pos - 1) : Tok(i).kind # "STOP" ]_vars

(***************************************************************************)
(* The analysis finds a misspelt option before anything is done.  --help   *)
(* and --version answer only if every option before the first positional   *)
(* word is known, those after them included; and the parse stage finds an  *)
(* unknown option after having accepted another only behind a word the     *)
(* analysis does not look up: a positional, a bundle, a negative number.   *)
(***************************************************************************)
UnknownFoundFirst ==
    LET option(i)  == Tok(i).kind \in {"LONG_OPTION", "LONG_OPTION_EQ", "SHORT_OPTION"}
        unknown(i) == option(i) /\ Lookup(P, Tok(i)) \notin Arg
        hides(j)   == ~option(j) \/ line[j] \in NegativeNumber
    IN  /\ result \in {"HELP", "VERSION"} /\ subcommandName = NoWord =>
              \A i \in 1..N : unknown(i) => \E j \in 1..i : hides(j)
        /\ error = "UNRECOGNIZED" /\ subcommandName = NoWord
              /\ (\E a \in Arg : occurrences[a] > 0) =>
              \E j \in 1..pos : hides(j)

(***************************************************************************)
(* What an error says of the line is so.  Required: something required is  *)
(* missing.  A conflict: the group already has an accepted option.  Too    *)
(* many arguments: every positional has all its words.  Too few: an option *)
(* has got fewer words than N for each time it was accepted, or fewer than *)
(* N words are left for a positional.  After the parse stage a positional  *)
(* of N words is judged by its key, into which another argument or a       *)
(* subcommand may have written.                                            *)
(***************************************************************************)
Filled(a) ==
    occurrences[a] > 0 /\ (P.spec[a].nargs > 1 => Len(given[a]) = P.spec[a].nargs)

Contested(a) == ~OwnsKey(a) \/ ~OwnLine

Unused == {i \in 1..N : claims[i] = 0}

ConflictExplained ==
    error = "MUTUALLY_EXCLUSIVE" =>
        \E a \in Optionals :
            /\ occurrences[a] > 0
            /\ P.spec[a].group = P.spec[Lookup(P, OptionToken)].group

TooManyExplained ==
    error = "TOO_MANY_ARGS" =>
        \/ \E a \in Positionals : TakesN(a) /\ Contested(a)
        \/ \A a \in Positionals : Filled(a)

TooFewExplained ==
    error = "TOO_FEW_ARGS" =>
        \/ \E a \in Optionals :
              TakesN(a) /\ Len(given[a]) < P.spec[a].nargs * occurrences[a]
        \/ \E a \in Positionals :
              /\ TakesN(a)
              /\ Contested(a) \/ Misaligned \/ Cardinality(Unused) < P.spec[a].nargs

ErrorsExplained ==
    /\ MissingIsMissing
    /\ subcommandName = NoWord =>
          ConflictExplained /\ TooManyExplained /\ TooFewExplained

(***************************************************************************)
(* The call returns: every turn of its loops uses up a token, a letter or  *)
(* a value.                                                                *)
(***************************************************************************)
Terminates == <>(phase \in {"done", "crashed"})

-----------------------------------------------------------------------------
(***************************************************************************)
(* What the documentation says and the code does not do.                   *)
(***************************************************************************)
\* readme.md, nargs N: "Exactly N arguments": the N that follow, so that none is
\* skipped and none goes to two arguments (also when every read is in range).
ExactlyN == Succeeded /\ OwnLine /\ ~overrun => \A i \in 1..N : claims[i] = 1

\* readme.md, nargs 1 (the default): "Exactly one argument", each time.
ExactlyOne ==
    Succeeded /\ OwnLine =>
        \A a \in Optionals :
            P.spec[a].nargs = 1 /\ NeedsValue(P.spec[a]) =>
                Len(given[a]) = occurrences[a]

\* readme.md, REMAINDER: "Consume all remaining arguments": none of them is lost.
RestIsKept ==
    Succeeded /\ OwnLine =>
        \A a \in Optionals \cup Positionals :
            P.spec[a].nargs = REMAINDER /\ OwnsKey(a) /\ Provided(a) =>
                ns[P.spec[a].dest].items = given[a]
=============================================================================
