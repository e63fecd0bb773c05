----------------------------- MODULE ClapParser -----------------------------
(***************************************************************************)
(* The data of libclap and the pure functions of it that a parse calls:    *)
(* what a token is, what a configured clap_parser_t says about each        *)
(* argument, how an option name is looked up (clap_find.c), what an action *)
(* does to the namespace entry of its argument (clap_actions.c,            *)
(* clap_action_executor.c, clap_namespace.c), and the tests clap_parse_args *)
(* makes once the command line is consumed (clap_tokenizer.c,              *)
(* clap_dependency.c, clap_convert.c).                                     *)
(*                                                                         *)
(* Strings are atoms.  A command-line word is an element of Word; what the *)
(* tokenizer, strtod and the type handlers make of a word is given by      *)
(* constant functions, and the prefix relation that abbreviation needs by  *)
(* a constant relation.                                                    *)
(***************************************************************************)
EXTENDS Integers, Sequences, FiniteSets

CONSTANTS
    Arg,             \* the argument objects (clap_argument_t)
    Dest,            \* the namespace keys (arg->dest)
    Word,            \* the words of a command line
    GroupId,         \* mutex group ids: indices into parser->mutex_groups
    TokenOf,         \* what clap_tokenize_arg makes of each word
    Abbreviates,     \* <<k, n>>: k is a prefix of the long option string n
    NegativeNumber,  \* the words that looks_like_negative_number accepts
    Convertible,     \* for each type, the words its handler converts
    NumberOf,        \* the int that a handler makes of a convertible word
    NoWord,          \* a NULL string
    NoArg,           \* a NULL clap_argument_t
    AmbiguousArg     \* lookup answer: two arguments share the prefix

-----------------------------------------------------------------------------
(***************************************************************************)
(* nargs and mutex_group_id, with the source's values.                     *)
(***************************************************************************)
REMAINDER == -1
ZERO_OR_ONE == -3
ZERO_OR_MORE == -4
ONE_OR_MORE == -5
NoGroup == -1

Action == {"STORE", "STORE_CONST", "STORE_TRUE", "STORE_FALSE", "APPEND",
           "APPEND_CONST", "COUNT", "HELP", "VERSION", "CUSTOM"}

Type == {"string", "int", "float", "bool", "custom", "unregistered"}

\* clap_error_t.code
ErrorCode == {"NONE", "INVALID_ARGUMENT", "MISSING_VALUE", "TYPE_CONVERSION",
              "INVALID_CHOICE", "MUTUALLY_EXCLUSIVE", "REQUIRED_MISSING",
              "UNRECOGNIZED", "TOO_MANY_ARGS", "TOO_FEW_ARGS",
              "DEPENDENCY_VIOLATION"}

TokenKind == {"POSITIONAL", "LONG_OPTION", "LONG_OPTION_EQ", "SHORT_OPTION",
              "SHORT_OPTION_BUNDLE", "STOP"}

(***************************************************************************)
(* A token: its kind, the option string a lookup of it searches ("--" or   *)
(* "-" put before option_name), the value after '=', and, of a bundle, the *)
(* words clap_expand_short_bundle makes of its letters.  The word itself   *)
(* is token->raw.                                                          *)
(***************************************************************************)
Token == [kind  : TokenKind,
          name  : Word \cup {NoWord},
          value : Word \cup {NoWord},
          chars : Seq(Word)]

\* clap_argument_t, as the setters of clap_argument.c leave it.
ArgumentSpec == [names    : SUBSET Word,
                 action   : Action,
                 nargs    : Int,
                 dest     : Dest,
                 type     : Type,
                 choices  : SUBSET Word,
                 required : BOOLEAN,
                 default  : Word \cup {NoWord},
                 const    : Word \cup {NoWord},
                 group    : GroupId \cup {NoGroup},
                 handler  : BOOLEAN,
                 requires : SUBSET Arg,
                 conflicts: SUBSET Arg]

\* clap_parser_t, as far as a parse reads it.
ParserSpec == [arguments     : Seq(Arg),
               optionals     : Seq(Arg),
               positionals   : Seq(Arg),
               spec          : [Arg -> ArgumentSpec],
               groups        : SUBSET GroupId,
               requiredGroups: SUBSET GroupId,
               allowAbbrev   : BOOLEAN,
               commands      : SUBSET Word,
               commandDest   : Dest]

ASSUME AtomsAssumption ==
    /\ NoWord \notin Word
    /\ NoArg \notin Arg
    /\ AmbiguousArg \notin Arg
    /\ NoArg # AmbiguousArg
    /\ GroupId \subseteq Nat

\* Each letter of a bundle becomes a word of two characters, "-" and itself, and
\* what reads as a negative number begins with "-" and is not "--".
ASSUME WordsAssumption ==
    /\ TokenOf \in [Word -> Token]
    /\ \A w \in Word : TokenOf[w].kind = "SHORT_OPTION_BUNDLE" =>
          /\ TokenOf[w].chars # << >>
          /\ \A k \in DOMAIN TokenOf[w].chars :
                TokenOf[TokenOf[w].chars[k]].kind \in {"SHORT_OPTION", "STOP"}
    /\ Abbreviates \subseteq Word \X Word
    /\ NegativeNumber \subseteq Word
    /\ \A w \in NegativeNumber : TokenOf[w].kind \notin {"STOP", "POSITIONAL"}
    /\ Convertible \in [Type -> SUBSET Word]
    /\ NumberOf \in [Word -> Int]

-----------------------------------------------------------------------------
(***************************************************************************)
(* Option lookup: an exact match on any option string wins, the first      *)
(* registered first; only then, for a long option of a parser that allows  *)
(* abbreviation, the one argument with an option string the key abbreviates. *)
(***************************************************************************)
Registered(p) == {p.optionals[i] : i \in DOMAIN p.optionals}
PositionalArgs(p) == {p.positionals[i] : i \in DOMAIN p.positionals}

ExactMatches(p, key) ==
    {i \in DOMAIN p.optionals : key \in p.spec[p.optionals[i]].names}

PrefixMatches(p, key) ==
    {a \in Registered(p) : \E n \in p.spec[a].names : <<key, n>> \in Abbreviates}

Lookup(p, token) ==
    LET exact  == ExactMatches(p, token.name)
        prefix == IF token.kind # "SHORT_OPTION" /\ p.allowAbbrev
                  THEN PrefixMatches(p, token.name) ELSE {}
    IN  IF exact # {}
        THEN p.optionals[CHOOSE i \in exact : \A j \in exact : i <= j]
        ELSE IF prefix = {} THEN NoArg
        ELSE IF \E a \in prefix : prefix = {a} THEN CHOOSE a \in prefix : TRUE
        ELSE AmbiguousArg

-----------------------------------------------------------------------------
(***************************************************************************)
(* The namespace: one entry per key, tagged with its type.  Strings,       *)
(* floats and arrays are kept as the words they were made of, ints and     *)
(* bools (0 and 1) as numbers.  Absent: the key is not in the namespace.   *)
(***************************************************************************)
ValueType == {"ABSENT", "STRING", "INT", "FLOAT", "BOOL", "ARRAY"}
Value == [type : ValueType, items : Seq(Word), num : Int]
Namespace == [Dest -> Value]

Absent == [type |-> "ABSENT", items |-> << >>, num |-> 0]
NewNamespace == [d \in Dest |-> Absent]

StringValue(w) == [type |-> "STRING", items |-> <<w>>, num |-> 0]
IntValue(n) == [type |-> "INT", items |-> << >>, num |-> n]
FloatValue(w) == [type |-> "FLOAT", items |-> <<w>>, num |-> 0]
BoolValue(n) == [type |-> "BOOL", items |-> << >>, num |-> n]

\* clap_namespace_append_string: an entry of another type becomes an empty array.
Appended(old, w) ==
    [type  |-> "ARRAY",
     items |-> IF old.type = "ARRAY" THEN Append(old.items, w) ELSE <<w>>,
     num   |-> 0]

Has(ns, d) == ns[d].type # "ABSENT"
IsArray(v) == v.type = "ARRAY" /\ v.items # << >>

\* convert_and_store, for a word the type's handler converts.
Converted(type, w) ==
    CASE type = "int"   -> IntValue(NumberOf[w])
      [] type = "float" -> FloatValue(w)
      [] type = "bool"  -> BoolValue(NumberOf[w])
      [] OTHER          -> StringValue(w)

ConversionFails(type, w) == type # "string" /\ w \notin Convertible[type]

-----------------------------------------------------------------------------
\* Mutation for ChoicesKept: the choices are not compared.
ChoiceRejectsNothing(arg, w) == FALSE

\* clap_validate_choice
ChoiceRejects(arg, w) == arg.choices # {} /\ w \notin arg.choices

(***************************************************************************)
(* clap_apply_argument_action: the choice check, then the action's handler, *)
(* called with the one value w, or with no value when w is NoWord.         *)
(* ActionError is the code it fails with ("NONE": it succeeds) and Applied *)
(* the entry it leaves in place of the entry old.  The handler of a CUSTOM *)
(* action is the client's: it does what the handler of the library's       *)
(* example does, converts the value and stores an int.                     *)
(***************************************************************************)
ActionError(arg, w) ==
    IF w # NoWord /\ ChoiceRejects(arg, w)
    THEN "INVALID_CHOICE"
    ELSE CASE arg.action = "STORE" /\ w # NoWord ->
                  IF ConversionFails(arg.type, w) THEN "TYPE_CONVERSION" ELSE "NONE"
           [] arg.action = "STORE_CONST" /\ arg.const # NoWord ->
                  IF ConversionFails(arg.type, arg.const)
                  THEN "TYPE_CONVERSION" ELSE "NONE"
           [] arg.action \in {"STORE_CONST", "APPEND_CONST"} /\ arg.const = NoWord ->
                  "INVALID_ARGUMENT"
           [] arg.action = "CUSTOM" /\ ~arg.handler -> "INVALID_ARGUMENT"
           [] arg.action = "CUSTOM" /\ arg.handler /\ w # NoWord ->
                  IF ConversionFails("custom", w) THEN "TYPE_CONVERSION" ELSE "NONE"
           [] arg.action \in {"HELP", "VERSION"} -> "INVALID_ARGUMENT"
           [] OTHER -> "NONE"

Applied(arg, w, old) ==
    CASE arg.action = "STORE" /\ w # NoWord -> Converted(arg.type, w)
      [] arg.action = "STORE_CONST" -> Converted(arg.type, arg.const)
      [] arg.action = "STORE_TRUE" -> BoolValue(1)
      [] arg.action = "STORE_FALSE" -> BoolValue(0)
      [] arg.action = "APPEND" /\ w # NoWord -> Appended(old, w)
      [] arg.action = "APPEND_CONST" -> Appended(old, arg.const)
      [] arg.action = "COUNT" ->
             IntValue((IF old.type = "INT" THEN old.num ELSE 0) + 1)
      [] arg.action = "CUSTOM" /\ w # NoWord -> IntValue(NumberOf[w])
      [] OTHER -> old

\* is_action_value_required
NeedsValue(arg) ==
    /\ arg.nargs # 0
    /\ arg.action \notin {"STORE_TRUE", "STORE_FALSE", "STORE_CONST",
                          "APPEND_CONST", "COUNT"}

\* The CLAP_ARG_MULTIPLE flag, which only clap_argument_nargs sets.
Multiple(arg) == arg.nargs \in {ZERO_OR_MORE, ONE_OR_MORE} \/ arg.nargs > 1

-----------------------------------------------------------------------------
(***************************************************************************)
(* The tests of clap_parse_args on a namespace filled from the command     *)
(* line.                                                                   *)
(***************************************************************************)
\* check_required_positional
PositionalMissing(arg, ns) ==
    /\ arg.nargs \notin {ZERO_OR_ONE, ZERO_OR_MORE, REMAINDER}
    /\ IF Multiple(arg) THEN ~IsArray(ns[arg.dest])
                        ELSE ns[arg.dest].type # "STRING"

\* Mutation for RequiredGiven: a default stands in for the option.
OptionMissingUndefaulted(arg, ns) ==
    arg.required /\ arg.default = NoWord /\ ~Has(ns, arg.dest)

\* check_required_option: what counts as present depends on the action, and
\* for every action but the three below it is a string.
OptionMissing(arg, ns) ==
    /\ arg.required
    /\ LET v == ns[arg.dest]
       IN  CASE Multiple(arg) -> ~IsArray(v)
             [] ~Multiple(arg) /\ arg.action \in {"STORE_TRUE", "STORE_FALSE"} ->
                    v.type # "BOOL"
             [] ~Multiple(arg) /\ arg.action = "COUNT" ->
                    ~(v.type = "INT" /\ v.num > 0)
             [] OTHER -> v.type # "STRING"

\* check_positional_nargs_constraint
NargsError(arg, ns) ==
    LET v     == ns[arg.dest]
        count == IF v.type = "ARRAY" THEN Len(v.items) ELSE 0
    IN  CASE arg.nargs = ONE_OR_MORE /\ count < 1 -> "REQUIRED_MISSING"
          [] arg.nargs > 1 /\ count < arg.nargs -> "TOO_FEW_ARGS"
          [] arg.nargs > 1 /\ count > arg.nargs -> "TOO_MANY_ARGS"
          [] OTHER -> "NONE"

(***************************************************************************)
(* clap_apply_defaults gives each absent key the default of the first      *)
(* argument, in registration order, that has the key and a default of its  *)
(* own or of its action; a custom type's default is stored unconverted.    *)
(***************************************************************************)
HasDefault(arg) ==
    arg.default # NoWord \/ arg.action \in {"STORE_TRUE", "STORE_FALSE", "COUNT"}

DefaultFails(arg) ==
    /\ arg.default # NoWord
    /\ arg.type \in {"int", "float", "bool"}
    /\ ConversionFails(arg.type, arg.default)

DefaultValue(arg) ==
    CASE arg.default # NoWord -> Converted(arg.type, arg.default)
      [] arg.default = NoWord /\ arg.action = "STORE_TRUE" -> BoolValue(0)
      [] arg.default = NoWord /\ arg.action = "STORE_FALSE" -> BoolValue(1)
      [] OTHER -> IntValue(0)

\* Mutation for NamespaceMatchesLine: a default replaces a value from the line.
DefaultingAlways(p, ns) ==
    {i \in DOMAIN p.arguments : HasDefault(p.spec[p.arguments[i]])}

\* The positions in parser->arguments whose default reaches the namespace.
Defaulting(p, ns) ==
    {i \in DOMAIN p.arguments :
        LET arg == p.spec[p.arguments[i]]
        IN  /\ ~Has(ns, arg.dest)
            /\ HasDefault(arg)
            /\ \A j \in 1..(i - 1) :
                  LET other == p.spec[p.arguments[j]]
                  IN  other.dest = arg.dest => ~HasDefault(other)}

WithDefaults(p, ns) ==
    [d \in Dest |->
        IF \E i \in Defaulting(p, ns) : p.spec[p.arguments[i]].dest = d
        THEN DefaultValue(p.spec[p.arguments[
                 CHOOSE i \in Defaulting(p, ns) : p.spec[p.arguments[i]].dest = d]])
        ELSE ns[d]]

\* Mutation for DependenciesMet: the defaults are applied before the test.
DependencyViolatedLate(p, ns) ==
    \E i \in DOMAIN p.arguments :
        LET arg  == p.spec[p.arguments[i]]
            late == WithDefaults(p, ns)
        IN  Has(late, arg.dest) /\ \E b \in arg.requires : ~Has(late, p.spec[b].dest)

\* clap_validate_dependencies: presence of an argument is presence of its key.
DependencyViolated(p, ns) ==
    \E i \in DOMAIN p.arguments :
        LET arg == p.spec[p.arguments[i]]
        IN  /\ Has(ns, arg.dest)
            /\ \/ \E b \in arg.requires : ~Has(ns, p.spec[b].dest)
               \/ \E b \in arg.conflicts : Has(ns, p.spec[b].dest)

(***************************************************************************)
(* clap_namespace_merge: copy the entries of src that dst does not have.   *)
(***************************************************************************)
Merged(dst, src) == [d \in Dest |-> IF Has(dst, d) THEN dst[d] ELSE src[d]]
=============================================================================
