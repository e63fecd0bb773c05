-------------------------- MODULE ParseArgs_proofs --------------------------
(***************************************************************************)
(* Theorems about ParseArgs, for every set of arguments, parser, command   *)
(* line and subcommand.  First the lemmas about the operators of           *)
(* ClapParser that ParseArgs is built from: what they return and preserve. *)
(***************************************************************************)
EXTENDS ParseArgs, TLAPS, NaturalsInduction, WellFoundedInduction

-----------------------------------------------------------------------------
(***************************************************************************)
(* A non-empty set of naturals has a least element (used for the first     *)
(* exact match of clap_find_option_best_match).                            *)
(***************************************************************************)
LEMMA LeastNatural ==
    ASSUME NEW S \in SUBSET Nat, S # {}
    PROVE  \E i \in S : \A j \in S : i <= j
<1>1. PICK i \in S : \A j \in S : ~(<<j, i>> \in OpToRel(<, Nat))
  BY NatLessThanWellFounded, WFMin
<1>2. \A j \in S : ~(j < i)
  BY <1>1 DEF OpToRel
<1> QED
  BY <1>2

(***************************************************************************)
(* The constructors of namespace entries build entries.                    *)
(***************************************************************************)
LEMMA ConstructorsType ==
    /\ Absent \in Value
    /\ \A w \in Word : StringValue(w) \in Value /\ FloatValue(w) \in Value
    /\ \A n \in Int : IntValue(n) \in Value /\ BoolValue(n) \in Value
    /\ \A old \in Value, w \in Word : Appended(old, w) \in Value
    /\ \A type \in Type, w \in Word : Converted(type, w) \in Value
<1> USE WordsAssumption DEF Value, ValueType
<1>1. Absent \in Value
  BY DEF Absent
<1>2. \A w \in Word : StringValue(w) \in Value /\ FloatValue(w) \in Value
  BY DEF StringValue, FloatValue
<1>3. \A n \in Int : IntValue(n) \in Value /\ BoolValue(n) \in Value
  BY DEF IntValue, BoolValue
<1>4. \A old \in Value, w \in Word : Appended(old, w) \in Value
  BY DEF Appended
<1>5. ASSUME NEW type \in Type, NEW w \in Word PROVE Converted(type, w) \in Value
  <2>1. NumberOf[w] \in Int
    OBVIOUS
  <2> QED
    BY <1>2, <1>3, <2>1 DEF Converted
<1> QED
  BY <1>1, <1>2, <1>3, <1>4, <1>5

(***************************************************************************)
(* An action fails with a code of the library, and when it succeeds it     *)
(* leaves a well-formed entry whatever entry it found (clap_actions.c).    *)
(***************************************************************************)
LEMMA ActionErrorType ==
    ASSUME NEW arg \in ArgumentSpec, NEW w \in Word \cup {NoWord}
    PROVE  ActionError(arg, w) \in ErrorCode
  BY DEF ActionError, ErrorCode, ArgumentSpec, Action

LEMMA AppliedType ==
    ASSUME NEW arg \in ArgumentSpec, NEW w \in Word \cup {NoWord},
           NEW old \in Value, ActionError(arg, w) = "NONE"
    PROVE  Applied(arg, w, old) \in Value
<1>1. arg.type \in Type /\ arg.const \in Word \cup {NoWord} /\ arg.action \in Action
  BY DEF ArgumentSpec
<1>2. old.num \in Int
  BY DEF Value
<1>3. arg.action \in {"STORE_CONST", "APPEND_CONST"} => arg.const \in Word
  BY <1>1 DEF ActionError
<1>4. w # NoWord => NumberOf[w] \in Int
  BY WordsAssumption
<1> HIDE DEF Value
<1> QED
  BY <1>1, <1>2, <1>3, <1>4, ConstructorsType DEF Applied

(***************************************************************************)
(* clap_find_option_best_match returns a registered option, or one of its  *)
(* two negative answers, whatever the token.                               *)
(***************************************************************************)
LEMMA LookupType ==
    ASSUME NEW p \in ParserSpec, NEW token
    PROVE  Lookup(p, token) \in Registered(p) \cup {NoArg, AmbiguousArg}
<1> DEFINE exact == ExactMatches(p, token.name)
           prefix == IF token.kind # "SHORT_OPTION" /\ p.allowAbbrev
                     THEN PrefixMatches(p, token.name) ELSE {}
<1>1. exact \subseteq DOMAIN p.optionals /\ DOMAIN p.optionals \subseteq Nat
  BY DEF ExactMatches, ParserSpec
<1>2. prefix \subseteq Registered(p)
  BY DEF PrefixMatches
<1>3. CASE exact # {}
  <2>1. \E i \in exact : \A j \in exact : i <= j
    BY <1>1, <1>3, LeastNatural
  <2>2. PICK i \in exact : i = CHOOSE k \in exact : \A j \in exact : k <= j
    BY <2>1
  <2>3. Lookup(p, token) = p.optionals[i]
    BY <1>3, <2>2 DEF Lookup
  <2> QED
    BY <1>1, <2>3 DEF Registered
<1>4. CASE exact = {} /\ \E a \in prefix : prefix = {a}
  <2>1. prefix # {}
    BY <1>4
  <2>2. Lookup(p, token) = CHOOSE a \in prefix : TRUE
    BY <1>4, <2>1 DEF Lookup
  <2> QED
    BY <1>2, <2>1, <2>2
<1>5. CASE exact = {} /\ ~\E a \in prefix : prefix = {a}
  BY <1>5 DEF Lookup
<1> QED
  BY <1>3, <1>4, <1>5

(***************************************************************************)
(* The defaults and the merge of a subcommand's namespace make namespaces  *)
(* of namespaces, and neither changes an entry that is there already.      *)
(***************************************************************************)
LEMMA DefaultValueType ==
    ASSUME NEW arg \in ArgumentSpec
    PROVE  DefaultValue(arg) \in Value
<1>1. arg.type \in Type /\ arg.default \in Word \cup {NoWord}
  BY DEF ArgumentSpec
<1> QED
  BY <1>1, ConstructorsType DEF DefaultValue

LEMMA WithDefaultsType ==
    ASSUME NEW p \in ParserSpec, NEW n \in Namespace
    PROVE  WithDefaults(p, n) \in Namespace
<1> DEFINE first(d) == CHOOSE i \in Defaulting(p, n) : p.spec[p.arguments[i]].dest = d
<1> SUFFICES ASSUME NEW d \in Dest
             PROVE  WithDefaults(p, n)[d] \in Value
  BY DEF WithDefaults, Namespace
<1>1. CASE \E i \in Defaulting(p, n) : p.spec[p.arguments[i]].dest = d
  <2>1. first(d) \in DOMAIN p.arguments
    BY <1>1 DEF Defaulting
  <2>2. p.spec[p.arguments[first(d)]] \in ArgumentSpec
    BY <2>1 DEF ParserSpec
  <2>3. WithDefaults(p, n)[d] = DefaultValue(p.spec[p.arguments[first(d)]])
    BY <1>1 DEF WithDefaults
  <2> QED
    BY <2>2, <2>3, DefaultValueType
<1>2. CASE ~\E i \in Defaulting(p, n) : p.spec[p.arguments[i]].dest = d
  BY <1>2 DEF WithDefaults, Namespace
<1> QED
  BY <1>1, <1>2

LEMMA DefaultsKeep ==
    ASSUME NEW p, NEW n, NEW d \in Dest, Has(n, d)
    PROVE  WithDefaults(p, n)[d] = n[d]
  BY DEF WithDefaults, Defaulting

LEMMA MergedType ==
    ASSUME NEW dst \in Namespace, NEW src \in Namespace
    PROVE  Merged(dst, src) \in Namespace
  BY DEF Merged, Namespace

-----------------------------------------------------------------------------

(***************************************************************************)
(* What the loops of the parse stage rely on.  A bundle is left only with  *)
(* all its letters parsed; while an argument's words are being taken, some *)
(* are left to take, the option they follow is still at pos, and those of  *)
(* a positional with nargs N are inside the command line.                  *)
(***************************************************************************)
BundleInv ==
    bundleAt > 1 => /\ parsingOptions
                    /\ pos <= N
                    /\ InBundle
                    /\ bundleAt <= Len(Tok(pos).chars)

WordsInv ==
    phase \in {"option_values", "rest", "positional_values"} =>
        current \in Arg /\ left >= 1 /\ next >= 1

OptionInv ==
    /\ phase = "option_values" => parsingOptions
    /\ phase = "option_values" \/ (phase = "rest" /\ parsingOptions) =>
          pos <= N /\ consumed >= 1

PositionalInv ==
    phase = "positional_values" =>
        /\ ~parsingOptions
        /\ next + left = pos + P.spec[current].nargs
        /\ next + left - 1 <= N

SubcommandInv == phase = "subcommand" => pos <= N

Inv == /\ TypeOK
       /\ BundleInv
       /\ WordsInv
       /\ OptionInv
       /\ PositionalInv
       /\ SubcommandInv

-----------------------------------------------------------------------------
(***************************************************************************)
(* The configuration and the command line, typed.                          *)
(***************************************************************************)
LEMMA InputsType ==
    ASSUME TypeOK
    PROVE  /\ P \in ParserSpec
           /\ \A a \in Arg : P.spec[a] \in ArgumentSpec
           /\ N \in Nat
           /\ \A i \in 1..N : line[i] \in Word /\ Tok(i) \in Token
  BY ParsersAssumption, WordsAssumption DEF TypeOK, P, N, Tok, ParserSpec

LEMMA InitInv == Init => Inv
<1> SUFFICES ASSUME Init PROVE Inv
  OBVIOUS
<1>1. line \in Seq(Word) /\ Len(line) \in Nat
  BY LinesAssumption DEF Init
<1>2. NewNamespace \in Namespace
  BY ConstructorsType DEF NewNamespace, Namespace
<1>3. /\ claims \in [1..Len(line) -> Nat]
      /\ occurrences \in [Arg -> Nat]
      /\ given \in [Arg -> Seq(Word)]
      /\ groupUsed \in [GroupId -> BOOLEAN]
  BY <1>1 DEF Init
<1>4. phase \in Phase /\ result \in Result \cup {"NONE"} /\ error \in ErrorCode
  BY DEF Init, Phase, Result, ErrorCode
<1>5. /\ parser \in ParserId
      /\ pos \in Nat \ {0}
      /\ positionalIndex \in Nat
      /\ parsingOptions \in BOOLEAN
      /\ bundleAt \in Nat \ {0}
      /\ bundleTotal \in Nat \ {0}
  BY DEF Init
<1>6. /\ current \in Arg \cup {NoArg}
      /\ consumed \in Nat
      /\ next \in Nat
      /\ left \in Nat
      /\ ns \in Namespace
      /\ subcommandName \in Word \cup {NoWord}
      /\ asOption \subseteq Nat
      /\ overrun \in BOOLEAN
  BY <1>2 DEF Init
<1>7. TypeOK
  BY <1>1, <1>3, <1>4, <1>5, <1>6 DEF TypeOK
<1> QED
  BY <1>7 DEF Init, Inv, BundleInv, WordsInv, OptionInv, PositionalInv, SubcommandInv

(***************************************************************************)
(* Every error path, and every step that changes only the phase, to one    *)
(* in which no loop runs.                                                  *)
(***************************************************************************)
LEMMA FailInv ==
    ASSUME Inv, NEW code \in ErrorCode, Fail(code)
    PROVE  Inv'
  BY DEF Inv, TypeOK, BundleInv, WordsInv, OptionInv, PositionalInv, SubcommandInv,
         Fail, inputs, stageVars, bundleVars, loopVars, store, history,
         Phase, Result, P, N, Tok, InBundle

LEMMA PassInv ==
    ASSUME Inv, NEW there \in Phase \ {"option_values", "rest", "positional_values",
                                       "subcommand"},
           Pass(there)
    PROVE  Inv'
  BY DEF Inv, TypeOK, BundleInv, WordsInv, OptionInv, PositionalInv, SubcommandInv,
         Pass, inputs, stageVars, bundleVars, loopVars, store, outcome, history,
         P, N, Tok, InBundle

-----------------------------------------------------------------------------
(***************************************************************************)
(* The parts that the actions are made of, typed.                          *)
(***************************************************************************)
LEMMA ClaimType ==
    ASSUME TypeOK, NEW S, Claim(S), line' = line
    PROVE  claims' \in [1..Len(line') -> Nat]
  BY DEF TypeOK, Claim, N

LEMMA GiveType ==
    ASSUME TypeOK, NEW a \in Arg, NEW w \in Word \cup {NoWord}, Give(a, w)
    PROVE  given' \in [Arg -> Seq(Word)]
<1>1. given[a] \in Seq(Word)
  BY DEF TypeOK
<1> QED
  BY <1>1 DEF TypeOK, Give

LEMMA OptionTokenType ==
    ASSUME Inv, AtOption
    PROVE  OptionToken \in Token
<1>1. line[pos] \in Word /\ Tok(pos) \in Token
  BY InputsType DEF Inv, TypeOK, AtOption, AtToken
<1>2. CASE InBundle
  <2>1. Tok(pos).chars \in Seq(Word) /\ Tok(pos).chars # << >>
    BY <1>1, <1>2, WordsAssumption DEF Tok, InBundle, Token
  <2>2. bundleAt \in 1..Len(Tok(pos).chars)
    BY <2>1 DEF Inv, TypeOK, BundleInv
  <2>3. Tok(pos).chars[bundleAt] \in Word
    BY <2>1, <2>2
  <2> QED
    BY <1>2, <2>3, WordsAssumption DEF OptionToken
<1>3. CASE ~InBundle
  BY <1>1, <1>3 DEF OptionToken
<1> QED
  BY <1>2, <1>3

LEMMA OptionValueType ==
    ASSUME Inv, AtOption, NEW arg \in ArgumentSpec
    PROVE  /\ Following \in Nat \ {0}
           /\ Remaining \in Nat \ {0}
           /\ TakesNext(arg) => Following \in 1..N
           /\ OptionValue(arg) \in Word \cup {NoWord}
           /\ Width(arg) \in {1, 2}
           /\ OptionError(arg) \in ErrorCode
<1>1. pos \in Nat \ {0} /\ N \in Nat /\ pos <= N /\ bundleTotal \in Nat \ {0}
  BY InputsType DEF Inv, TypeOK, AtOption, AtToken
<1>2. Following \in Nat \ {0} /\ Remaining \in Nat \ {0}
  BY <1>1 DEF Following, Remaining
<1>3. TakesNext(arg) => Following \in 1..N
  BY <1>1, <1>2 DEF TakesNext, NextIsValue
<1>4. OptionToken.value \in Word \cup {NoWord}
  BY OptionTokenType DEF Token
<1>5. OptionValue(arg) \in Word \cup {NoWord}
  BY <1>3, <1>4, InputsType DEF OptionValue, Inv
<1>6. Width(arg) \in {1, 2}
  BY DEF Width
<1>7. ActionError(arg, OptionValue(arg)) \in ErrorCode
  BY <1>5, ActionErrorType
<1>8. OptionError(arg) \in ErrorCode
  BY <1>7 DEF OptionError, ErrorCode
<1> QED
  BY <1>2, <1>3, <1>5, <1>6, <1>8

(***************************************************************************)
(* Leaving an option moves to the next letter of its bundle or past the    *)
(* tokens the option and its bundle have used: always further on.          *)
(***************************************************************************)
LEMMA LeaveOptionStep ==
    ASSUME Inv, pos <= N, parsingOptions, NEW c \in Nat \ {0},
           LeaveOption(c), UNCHANGED <<inputs, parsingOptions>>
    PROVE  /\ phase' = "stage"
           /\ pos' \in Nat \ {0}
           /\ bundleAt' \in Nat \ {0}
           /\ bundleTotal' \in Nat \ {0}
           /\ BundleInv'
  BY DEF Inv, TypeOK, LeaveOption, BundleInv, InBundle, Tok, N, P, inputs

(***************************************************************************)
(* What an option that is accepted writes has its type: above all the      *)
(* namespace, whatever the option's action.                                *)
(***************************************************************************)
LEMMA NamespaceStep ==
    ASSUME TypeOK, NEW a \in Arg, NEW v,
           ns' = [ns EXCEPT ![P.spec[a].dest] = v],
           v \in Value
    PROVE  ns' \in Namespace
<1>1. P.spec[a].dest \in Dest
  BY InputsType DEF ArgumentSpec
<1> QED
  BY <1>1 DEF TypeOK, Namespace

LEMMA EntryType ==
    ASSUME TypeOK, NEW a \in Arg
    PROVE  ns[P.spec[a].dest] \in Value
<1>1. P.spec[a].dest \in Dest
  BY InputsType DEF ArgumentSpec
<1> QED
  BY <1>1 DEF TypeOK, Namespace

LEMMA ApplyOptionStep ==
    ASSUME Inv, NEW a \in Arg, ApplyOption(a)
    PROVE  /\ AtOption
           /\ UNCHANGED <<inputs, positionalIndex, parsingOptions, outcome, overrun>>
           /\ ns' \in Namespace
           /\ groupUsed' \in [GroupId -> BOOLEAN]
           /\ claims' \in [1..Len(line') -> Nat]
           /\ occurrences' \in [Arg -> Nat]
           /\ given' \in [Arg -> Seq(Word)]
           /\ asOption' \subseteq Nat
<1> DEFINE arg == P.spec[a]
           w == OptionValue(arg)
<1>1. TypeOK /\ arg \in ArgumentSpec
  BY InputsType DEF Inv
<1>2. /\ AtOption
      /\ UNCHANGED <<inputs, positionalIndex, parsingOptions, outcome, overrun>>
  BY DEF ApplyOption, UsableOption, FoundOption
<1>3. w \in Word \cup {NoWord} /\ OptionError(arg) = "NONE"
  BY <1>1, <1>2, OptionValueType DEF ApplyOption
<1>4. ActionError(arg, w) = "NONE"
  BY <1>3 DEF OptionError
<1>5. Applied(arg, w, ns[arg.dest]) \in Value
  BY <1>1, <1>3, <1>4, EntryType, AppliedType
<1>6. ns' = [ns EXCEPT ![arg.dest] = Applied(arg, w, ns[arg.dest])]
  BY DEF ApplyOption
<1>7. ns' \in Namespace
  BY <1>1, <1>5, <1>6, NamespaceStep
<1>8. groupUsed' \in [GroupId -> BOOLEAN]
  BY <1>1 DEF TypeOK, ApplyOption, MarkGroup
<1>9. claims' \in [1..Len(line') -> Nat]
  BY <1>1, <1>2, ClaimType DEF ApplyOption, inputs
<1>10. occurrences' \in [Arg -> Nat]
  BY <1>1 DEF TypeOK, ApplyOption
<1>11. Give(a, w)
  BY DEF ApplyOption
<1>12. given' \in [Arg -> Seq(Word)]
  BY <1>1, <1>3, <1>11, GiveType
<1>13. asOption' \subseteq Nat
  BY <1>1 DEF TypeOK, ApplyOption
<1> QED
  BY <1>2, <1>7, <1>8, <1>9, <1>10, <1>12, <1>13

-----------------------------------------------------------------------------
(***************************************************************************)
(* The invariant is kept by every action.                                  *)
(***************************************************************************)
LEMMA OptionInvStep == Inv /\ Option => Inv'
<1> SUFFICES ASSUME Inv, NEW a \in Arg,
                    ApplyOption(a),
                    LeaveOption(Width(P.spec[a])),
                    UNCHANGED loopVars
             PROVE  Inv'
  BY DEF Option
<1>1. AtOption /\ pos <= N /\ parsingOptions
  BY ApplyOptionStep DEF AtOption, AtToken
<1>2. Width(P.spec[a]) \in Nat \ {0}
  BY <1>1, OptionValueType, InputsType DEF Inv
<1>3. /\ phase' = "stage"
      /\ pos' \in Nat \ {0}
      /\ bundleAt' \in Nat \ {0}
      /\ bundleTotal' \in Nat \ {0}
      /\ BundleInv'
  BY <1>1, <1>2, ApplyOptionStep, LeaveOptionStep
<1>4. TypeOK'
  BY <1>3, ApplyOptionStep DEF Inv, TypeOK, inputs, loopVars, outcome, Phase
<1> QED
  BY <1>3, <1>4 DEF Inv, WordsInv, OptionInv, PositionalInv, SubcommandInv

LEMMA OptionWithValuesInvStep == Inv /\ OptionWithValues => Inv'
<1> SUFFICES ASSUME Inv, NEW a \in Arg,
                    ApplyOption(a),
                    P.spec[a].nargs > 1,
                    phase' = "option_values",
                    current' \in Arg,
                    consumed' = Width(P.spec[a]),
                    next' = Following + 1,
                    left' = P.spec[a].nargs - 1,
                    UNCHANGED <<pos, bundleVars>>
             PROVE  Inv'
  BY DEF OptionWithValues
<1>1. AtOption /\ pos <= N /\ parsingOptions
  BY ApplyOptionStep DEF AtOption, AtToken
<1>2. P.spec[a] \in ArgumentSpec /\ P.spec[a].nargs \in Int
  BY InputsType DEF Inv, ArgumentSpec
<1>3. Width(P.spec[a]) \in {1, 2} /\ Following \in Nat \ {0}
  BY <1>1, <1>2, OptionValueType
<1>4. left' \in Nat \ {0} /\ consumed' \in Nat \ {0} /\ next' \in Nat \ {0}
  <2>1. left' \in Nat \ {0}
    BY <1>2
  <2>2. consumed' \in Nat \ {0}
    BY <1>3
  <2>3. next' \in Nat \ {0}
    BY <1>3
  <2> QED
    BY <2>1, <2>2, <2>3
<1>5. TypeOK'
  BY <1>4, ApplyOptionStep DEF Inv, TypeOK, inputs, bundleVars, outcome, Phase
<1>6. BundleInv'
  BY ApplyOptionStep DEF Inv, BundleInv, InBundle, Tok, N, inputs, bundleVars
<1>7. OptionInv'
  <2>1. line' = line /\ parsingOptions' /\ pos' = pos
    BY <1>1, ApplyOptionStep DEF inputs
  <2> QED
    BY <1>1, <1>4, <2>1 DEF OptionInv, N
<1>8. WordsInv'
  BY <1>2, <1>4 DEF WordsInv
<1>9. PositionalInv' /\ SubcommandInv'
  BY DEF PositionalInv, SubcommandInv
<1> QED
  BY <1>5, <1>6, <1>7, <1>8, <1>9 DEF Inv

LEMMA OptionWithRestInvStep == Inv /\ OptionWithRest => Inv'
<1> SUFFICES ASSUME Inv, NEW a \in Arg,
                    ApplyOption(a),
                    TakesRest(P.spec[a]),
                    phase' = "rest",
                    current' \in Arg,
                    consumed' = Remaining,
                    next' = Following + Width(P.spec[a]) - 1,
                    left' = Remaining - Width(P.spec[a]),
                    UNCHANGED <<pos, bundleVars>>
             PROVE  Inv'
  BY DEF OptionWithRest
<1>1. AtOption /\ pos <= N /\ parsingOptions
  BY ApplyOptionStep DEF AtOption, AtToken
<1>2. P.spec[a] \in ArgumentSpec
  BY InputsType DEF Inv
<1>3. /\ Width(P.spec[a]) \in {1, 2}
      /\ Following \in Nat \ {0}
      /\ Remaining \in Nat \ {0}
  BY <1>1, <1>2, OptionValueType
<1>4. left' \in Nat \ {0} /\ consumed' \in Nat \ {0} /\ next' \in Nat \ {0}
  BY <1>3 DEF TakesRest
<1>5. TypeOK'
  BY <1>4, ApplyOptionStep DEF Inv, TypeOK, inputs, bundleVars, outcome, Phase
<1>6. BundleInv'
  BY ApplyOptionStep DEF Inv, BundleInv, InBundle, Tok, N, inputs, bundleVars
<1>7. OptionInv'
  <2>1. line' = line /\ parsingOptions' /\ pos' = pos
    BY <1>1, ApplyOptionStep DEF inputs
  <2> QED
    BY <1>1, <1>4, <2>1 DEF OptionInv, N
<1> QED
  BY <1>4, <1>5, <1>6, <1>7 DEF Inv, WordsInv, PositionalInv, SubcommandInv

LEMMA WordAtType ==
    ASSUME TypeOK, NEW i \in Nat \ {0}
    PROVE  WordAt(i) \in Word \cup {NoWord}
  BY InputsType DEF WordAt

(***************************************************************************)
(* A further value of an option; next is where the loop looks for it,      *)
(* possibly past the end of the line.                                      *)
(***************************************************************************)
LEMMA RejectedInvStep ==
    Inv /\ (RejectedOption \/ RejectedValue \/ RejectedPositional) => Inv'
<1> SUFFICES ASSUME Inv PROVE RejectedOption \/ RejectedValue \/ RejectedPositional => Inv'
  OBVIOUS
<1>1. ASSUME RejectedOption PROVE Inv'
  <2>1. PICK a \in Arg : AtOption /\ Fail(OptionError(P.spec[a]))
    BY <1>1 DEF RejectedOption, UsableOption, FoundOption
  <2>2. OptionError(P.spec[a]) \in ErrorCode
    BY <2>1, OptionValueType, InputsType DEF Inv
  <2> QED
    BY <2>1, <2>2, FailInv
<1>2. ASSUME RejectedValue PROVE Inv'
  <2>1. current \in Arg /\ TypeOK /\ P.spec[current] \in ArgumentSpec
    BY <1>2, InputsType DEF RejectedValue, Inv, WordsInv
  <2>2. WordAt(next) \in Word \cup {NoWord}
    BY <1>2, WordAtType DEF TypeOK, RejectedValue, Inv, WordsInv
  <2>3. OptionValueError(P.spec[current]) \in ErrorCode
    BY <2>1, <2>2, ActionErrorType DEF OptionValueError, ErrorCode
  <2> QED
    BY <1>2, <2>3, FailInv DEF RejectedValue
<1>3. ASSUME RejectedPositional PROVE Inv'
  <2>1. PICK a \in Arg : AtPositionalOf(a) /\ Fail(PositionalError(P.spec[a]))
    BY <1>3 DEF RejectedPositional
  <2>2. line[pos] \in Word /\ P.spec[a] \in ArgumentSpec
    BY <2>1, InputsType DEF Inv, TypeOK, AtPositionalOf, AtPositional, AtToken
  <2>3. PositionalError(P.spec[a]) \in ErrorCode
    BY <2>2, ActionErrorType DEF PositionalError, ErrorCode
  <2> QED
    BY <2>1, <2>3, FailInv
<1> QED
  BY <1>1, <1>2, <1>3

LEMMA NextOptionValueInvStep == Inv /\ NextOptionValue => Inv'
<1> SUFFICES ASSUME Inv, NextOptionValue PROVE Inv'
  OBVIOUS
<1> DEFINE arg == P.spec[current]
           w == WordAt(next)
<1>1. /\ TypeOK
      /\ phase = "option_values"
      /\ current \in Arg
      /\ left \in Nat \ {0}
      /\ next \in Nat \ {0}
      /\ consumed \in Nat \ {0}
      /\ pos <= N
      /\ parsingOptions
  BY DEF Inv, TypeOK, WordsInv, OptionInv, NextOptionValue
<1>2. arg \in ArgumentSpec /\ w \in Word \cup {NoWord}
  BY <1>1, InputsType, WordAtType
<1>3. ActionError(arg, w) = "NONE"
  BY DEF NextOptionValue, OptionValueError
<1>4. ns' \in Namespace
  <2>1. Applied(arg, w, ns[arg.dest]) \in Value
    BY <1>1, <1>2, <1>3, EntryType, AppliedType
  <2>2. ns' = [ns EXCEPT ![arg.dest] = Applied(arg, w, ns[arg.dest])]
    BY DEF NextOptionValue
  <2> QED
    BY <1>1, <2>1, <2>2, NamespaceStep
<1>5. UNCHANGED <<inputs, positionalIndex, parsingOptions, current, groupUsed, outcome,
                  occurrences, asOption>>
  BY DEF NextOptionValue
<1>6. claims' \in [1..Len(line') -> Nat] /\ given' \in [Arg -> Seq(Word)]
  BY <1>1, <1>2, <1>5, ClaimType, GiveType DEF NextOptionValue, inputs
<1>7. /\ consumed' \in Nat \ {0}
      /\ next' \in Nat \ {0}
      /\ left' \in Nat
      /\ overrun' \in BOOLEAN
  BY <1>1 DEF TypeOK, NextOptionValue
<1>8. CASE left = 1
  <2>1. LeaveOption(consumed + 1)
    BY <1>8 DEF NextOptionValue
  <2>2. /\ phase' = "stage"
        /\ pos' \in Nat \ {0}
        /\ bundleAt' \in Nat \ {0}
        /\ bundleTotal' \in Nat \ {0}
        /\ BundleInv'
    BY <1>1, <1>5, <2>1, LeaveOptionStep
  <2>3. TypeOK'
    BY <1>1, <1>4, <1>5, <1>6, <1>7, <2>2 DEF TypeOK, inputs, outcome, Phase
  <2> QED
    BY <2>2, <2>3 DEF Inv, WordsInv, OptionInv, PositionalInv, SubcommandInv
<1>9. CASE left # 1
  <2>1. UNCHANGED <<phase, pos, bundleVars>>
    BY <1>9 DEF NextOptionValue
  <2>2. left' \in Nat \ {0}
    BY <1>1, <1>9 DEF NextOptionValue
  <2>3. TypeOK'
    BY <1>1, <1>4, <1>5, <1>6, <1>7, <2>1 DEF TypeOK, inputs, outcome, bundleVars
  <2>4. BundleInv'
    BY <1>5, <2>1 DEF Inv, BundleInv, InBundle, Tok, N, inputs, bundleVars
  <2>5. WordsInv' /\ OptionInv'
    BY <1>1, <1>5, <1>7, <2>1, <2>2 DEF WordsInv, OptionInv, N, inputs
  <2>6. PositionalInv' /\ SubcommandInv'
    BY <1>1, <2>1 DEF PositionalInv, SubcommandInv
  <2> QED
    BY <2>3, <2>4, <2>5, <2>6 DEF Inv
<1> QED
  BY <1>8, <1>9

LEMMA RestWordInvStep == Inv /\ RestWord => Inv'
<1> SUFFICES ASSUME Inv, RestWord PROVE Inv'
  OBVIOUS
<1> DEFINE d == P.spec[current].dest
           w == IF next <= N /\ Tok(next).kind = "STOP" THEN NoWord ELSE WordAt(next)
<1>1. /\ TypeOK
      /\ phase = "rest"
      /\ current \in Arg
      /\ left \in Nat \ {0}
      /\ next \in Nat \ {0}
  BY DEF Inv, TypeOK, WordsInv, RestWord
<1>2. w \in Word \cup {NoWord}
  BY <1>1, WordAtType
<1>3. ns' \in Namespace
  <2>1. CASE w = NoWord
    BY <1>1, <2>1 DEF TypeOK, RestWord
  <2>2. CASE w # NoWord
    <3>1. Appended(ns[d], w) \in Value
      BY <1>1, <1>2, <2>2, EntryType, ConstructorsType
    <3>2. ns' = [ns EXCEPT ![d] = Appended(ns[d], w)]
      BY <2>2 DEF RestWord
    <3> QED
      BY <1>1, <3>1, <3>2, NamespaceStep
  <2> QED
    BY <2>1, <2>2
<1>4. UNCHANGED <<inputs, positionalIndex, parsingOptions, current, consumed, groupUsed,
                  outcome, occurrences, asOption>>
  BY DEF RestWord
<1>5. claims' \in [1..Len(line') -> Nat]
  BY <1>1, <1>4, ClaimType DEF RestWord, inputs
<1>6. given' \in [Arg -> Seq(Word)]
  <2>1. Give(current, w)
    BY DEF RestWord
  <2> QED
    BY <1>1, <1>2, <2>1, GiveType
<1>7. /\ next' \in Nat \ {0}
      /\ left' \in Nat
      /\ overrun' \in BOOLEAN
  BY <1>1 DEF TypeOK, RestWord
<1>8. CASE left > 1
  <2>1. UNCHANGED <<phase, pos, bundleVars>>
    BY <1>8 DEF RestWord
  <2>2. left' \in Nat \ {0}
    BY <1>1, <1>8 DEF RestWord
  <2>3. TypeOK'
    BY <1>1, <1>3, <1>4, <1>5, <1>6, <1>7, <2>1 DEF TypeOK, inputs, outcome, bundleVars
  <2>4. BundleInv'
    BY <1>4, <2>1 DEF Inv, BundleInv, InBundle, Tok, N, inputs, bundleVars
  <2>5. WordsInv' /\ OptionInv'
    BY <1>1, <1>4, <1>7, <2>1, <2>2 DEF Inv, WordsInv, OptionInv, N, inputs
  <2>6. PositionalInv' /\ SubcommandInv'
    BY <1>1, <2>1 DEF PositionalInv, SubcommandInv
  <2> QED
    BY <2>3, <2>4, <2>5, <2>6 DEF Inv
<1>9. CASE ~(left > 1) /\ parsingOptions
  <2>1. LeaveOption(consumed)
    BY <1>9 DEF RestWord
  <2>2. pos <= N /\ consumed \in Nat \ {0}
    BY <1>1, <1>9 DEF Inv, TypeOK, OptionInv
  <2>3. /\ phase' = "stage"
        /\ pos' \in Nat \ {0}
        /\ bundleAt' \in Nat \ {0}
        /\ bundleTotal' \in Nat \ {0}
        /\ BundleInv'
    BY <1>4, <1>9, <2>1, <2>2, LeaveOptionStep
  <2>4. TypeOK'
    BY <1>1, <1>3, <1>4, <1>5, <1>6, <1>7, <2>3 DEF TypeOK, inputs, outcome, Phase
  <2> QED
    BY <2>3, <2>4 DEF Inv, WordsInv, OptionInv, PositionalInv, SubcommandInv
<1>10. CASE ~(left > 1) /\ ~parsingOptions
  <2>1. phase' = "required_positionals" /\ UNCHANGED <<pos, bundleVars>>
    BY <1>10 DEF RestWord
  <2>2. TypeOK'
    BY <1>1, <1>3, <1>4, <1>5, <1>6, <1>7, <2>1
    DEF TypeOK, inputs, outcome, bundleVars, Phase
  <2>3. BundleInv'
    BY <1>4, <2>1 DEF Inv, BundleInv, InBundle, Tok, N, inputs, bundleVars
  <2> QED
    BY <2>1, <2>2, <2>3 DEF Inv, WordsInv, OptionInv, PositionalInv, SubcommandInv
<1> QED
  BY <1>8, <1>9, <1>10

(***************************************************************************)
(* A positional: the parse stage leaves the options for good.              *)
(***************************************************************************)
LEMMA AcceptPositionalStep ==
    ASSUME Inv, NEW a \in Arg, AcceptPositional(a)
    PROVE  /\ TypeOK
           /\ phase = "stage"
           /\ pos \in 1..N
           /\ line[pos] \in Word
           /\ P.spec[a] \in ArgumentSpec
           /\ bundleAt = 1
           /\ PositionalError(P.spec[a]) = "NONE"
           /\ parsingOptions' = FALSE
           /\ occurrences' \in [Arg -> Nat]
           /\ UNCHANGED <<inputs, bundleVars, consumed, groupUsed, outcome, asOption,
                          overrun>>
<1>1. TypeOK /\ P.spec[a] \in ArgumentSpec
  BY InputsType DEF Inv
<1>2. phase = "stage" /\ pos \in 1..N
  BY <1>1, InputsType
  DEF TypeOK, AcceptPositional, AtPositionalOf, AtPositional, AtToken
<1>3. bundleAt = 1
  BY <1>1 DEF Inv, TypeOK, BundleInv, InBundle,
              AcceptPositional, AtPositionalOf, AtPositional
<1>4. occurrences' \in [Arg -> Nat]
  BY <1>1 DEF TypeOK, AcceptPositional
<1> QED
  BY <1>1, <1>2, <1>3, <1>4, InputsType DEF AcceptPositional

LEMMA PositionalWordsInvStep == Inv /\ (PositionalRest \/ PositionalValues) => Inv'
<1> SUFFICES ASSUME Inv, NEW a \in Arg, NEW count, NEW where,
                    AcceptPositional(a),
                    BeginWords(a, count, where),
                    \/ count = N - pos + 1 /\ where = "rest"
                    \/ /\ P.spec[a].nargs > 1
                       /\ count = P.spec[a].nargs
                       /\ where = "positional_values"
             PROVE  Inv'
  BY DEF PositionalRest, PositionalValues
<1>1. /\ TypeOK
      /\ pos \in 1..N
      /\ N \in Nat
      /\ bundleAt = 1
      /\ parsingOptions' = FALSE
      /\ line' = line
      /\ P.spec[a].nargs \in Int
  BY AcceptPositionalStep, InputsType DEF ArgumentSpec, inputs
<1>2. count \in Nat \ {0}
  BY <1>1
<1>3. UNCHANGED <<pos, positionalIndex, ns, claims, given>>
  BY DEF BeginWords
<1>4. /\ phase' = where
      /\ current' = a
      /\ next' = pos
      /\ left' = count
  BY DEF BeginWords
<1>5. phase' \in Phase
  BY <1>4 DEF Phase
<1>6. TypeOK'
  BY <1>1, <1>2, <1>3, <1>4, <1>5, AcceptPositionalStep
  DEF TypeOK, inputs, bundleVars, outcome
<1>7. BundleInv'
  <2>1. bundleAt' = bundleAt
    BY AcceptPositionalStep DEF bundleVars
  <2> QED
    BY <1>1, <2>1 DEF BundleInv
<1>8. WordsInv'
  BY <1>1, <1>2, <1>4 DEF WordsInv
<1>9. OptionInv' /\ SubcommandInv'
  BY <1>1, <1>4 DEF OptionInv, SubcommandInv
<1>10. PositionalInv'
  <2>1. CASE where = "rest"
    BY <1>4, <2>1 DEF PositionalInv
  <2>2. CASE where = "positional_values"
    <3>1. P.spec[a].nargs > 1 /\ count = P.spec[a].nargs
      BY <2>2
    <3>2. PositionalError(P.spec[a]) = "NONE"
      BY AcceptPositionalStep
    <3>3. ~(pos - 1 + P.spec[a].nargs > N)
      BY <3>1, <3>2 DEF PositionalError
    <3>4. pos + count - 1 <= N
      BY <1>1, <3>1, <3>3
    <3>5. next' + left' = pos' + P'.spec[current'].nargs
      BY <1>1, <1>3, <1>4, <3>1, AcceptPositionalStep DEF P, inputs
    <3>6. next' + left' - 1 <= N'
      BY <1>1, <1>4, <3>4 DEF N
    <3> QED
      BY <1>1, <3>5, <3>6 DEF PositionalInv
  <2> QED
    BY <2>1, <2>2
<1> QED
  BY <1>6, <1>7, <1>8, <1>9, <1>10 DEF Inv

LEMMA NextPositionalValueInvStep == Inv /\ NextPositionalValue => Inv'
<1> SUFFICES ASSUME Inv, NextPositionalValue PROVE Inv'
  OBVIOUS
<1> DEFINE arg == P.spec[current]
<1>1. /\ TypeOK
      /\ phase = "positional_values"
      /\ current \in Arg
      /\ left \in Nat \ {0}
      /\ next \in Nat \ {0}
      /\ parsingOptions = FALSE
      /\ next + left = pos + arg.nargs
      /\ next + left - 1 <= N
      /\ N \in Nat
  <2>1. TypeOK /\ WordsInv /\ PositionalInv /\ phase = "positional_values"
    BY DEF Inv, NextPositionalValue
  <2>2. /\ current \in Arg
        /\ left \in Nat \ {0}
        /\ next \in Nat \ {0}
    BY <2>1 DEF TypeOK, WordsInv
  <2>3. /\ parsingOptions = FALSE
        /\ next + left = pos + arg.nargs
        /\ next + left - 1 <= N
    BY <2>1 DEF TypeOK, PositionalInv
  <2> QED
    BY <2>1, <2>2, <2>3, InputsType
<1>2. next \in 1..N
  BY <1>1
<1>3. line[next] \in Word /\ arg \in ArgumentSpec
  BY <1>1, <1>2, InputsType
<1>4. ns' \in Namespace
  <2>1. Appended(ns[arg.dest], line[next]) \in Value
    BY <1>1, <1>3, EntryType, ConstructorsType
  <2>2. ns' = [ns EXCEPT ![arg.dest] = Appended(ns[arg.dest], line[next])]
    BY DEF NextPositionalValue
  <2> QED
    BY <1>1, <2>1, <2>2, NamespaceStep
<1>5. UNCHANGED <<inputs, parsingOptions, bundleVars, current, consumed, groupUsed,
                  outcome, occurrences, asOption, overrun>>
  BY DEF NextPositionalValue
<1>6. claims' \in [1..Len(line') -> Nat] /\ given' \in [Arg -> Seq(Word)]
  BY <1>1, <1>3, <1>5, ClaimType, GiveType DEF NextPositionalValue, inputs
<1>7. next' = next + 1 /\ left' = left - 1
  BY DEF NextPositionalValue
<1>8. bundleAt = 1
  BY <1>1 DEF Inv, TypeOK, BundleInv
<1>9. BundleInv'
  BY <1>5, <1>8 DEF BundleInv, bundleVars
<1>10. CASE left = 1
  <2>1. /\ phase' = "stage"
        /\ pos' = pos + arg.nargs
        /\ positionalIndex' = positionalIndex + 1
    BY <1>10 DEF NextPositionalValue
  <2>2. pos' \in Nat \ {0}
    BY <1>1, <2>1
  <2>3. TypeOK'
    BY <1>1, <1>4, <1>5, <1>6, <1>7, <2>1, <2>2
    DEF TypeOK, inputs, bundleVars, outcome, Phase
  <2> QED
    BY <1>9, <2>1, <2>3 DEF Inv, WordsInv, OptionInv, PositionalInv, SubcommandInv
<1>11. CASE left # 1
  <2>1. UNCHANGED <<phase, pos, positionalIndex>>
    BY <1>11 DEF NextPositionalValue
  <2>2. left' \in Nat \ {0} /\ next' \in Nat \ {0}
    BY <1>1, <1>7, <1>11
  <2>3. TypeOK'
    BY <1>1, <1>4, <1>5, <1>6, <2>1, <2>2 DEF TypeOK, inputs, bundleVars, outcome
  <2>4. WordsInv' /\ OptionInv' /\ SubcommandInv'
    BY <1>1, <1>5, <2>1, <2>2 DEF WordsInv, OptionInv, SubcommandInv
  <2>5. PositionalInv'
    BY <1>1, <1>5, <1>7, <2>1 DEF PositionalInv, N, P, inputs
  <2> QED
    BY <1>9, <2>3, <2>4, <2>5 DEF Inv
<1> QED
  BY <1>10, <1>11

LEMMA PositionalWordInvStep == Inv /\ (PositionalOneOfMany \/ PositionalSingle) => Inv'
<1> SUFFICES ASSUME Inv, NEW a \in Arg, NEW v \in Value,
                    AcceptPositional(a),
                    ns' = [ns EXCEPT ![P.spec[a].dest] = v],
                    pos' = pos + 1,
                    positionalIndex' \in {positionalIndex, positionalIndex + 1},
                    Claim({pos}),
                    Give(a, line[pos]),
                    UNCHANGED <<phase, current, next, left>>
             PROVE  Inv'
  <2>1. ASSUME Inv, NEW a \in Arg, AcceptPositional(a)
        PROVE  ns[P.spec[a].dest] \in Value /\ line[pos] \in Word
    BY <2>1, EntryType, AcceptPositionalStep
  <2>2. ASSUME Inv, NEW a \in Arg, AcceptPositional(a)
        PROVE  Appended(ns[P.spec[a].dest], line[pos]) \in Value
    BY <2>1, <2>2, ConstructorsType
  <2>3. ASSUME Inv, NEW a \in Arg, AcceptPositional(a),
               P.spec[a].nargs # REMAINDER, ~Multiple(P.spec[a])
        PROVE  Applied(P.spec[a], line[pos], ns[P.spec[a].dest]) \in Value
    <3>1. PositionalError(P.spec[a]) = "NONE" /\ P.spec[a] \in ArgumentSpec
      BY <2>3, AcceptPositionalStep
    <3>2. P.spec[a].nargs \in Int
      BY <3>1 DEF ArgumentSpec
    <3>3. ~(P.spec[a].nargs > 1)
      BY <2>3 DEF Multiple
    <3>4. ActionError(P.spec[a], line[pos]) = "NONE"
      BY <2>3, <3>1, <3>3 DEF PositionalError
    <3> QED
      BY <2>1, <2>3, <3>1, <3>4, AppliedType
  <2>4. Inv /\ PositionalOneOfMany => Inv'
    BY <2>2 DEF PositionalOneOfMany
  <2>5. Inv /\ PositionalSingle => Inv'
    BY <2>3 DEF PositionalSingle
  <2> QED
    BY <2>4, <2>5
<1>1. /\ TypeOK
      /\ phase = "stage"
      /\ pos \in 1..N
      /\ line[pos] \in Word
      /\ bundleAt = 1
      /\ parsingOptions' = FALSE
      /\ UNCHANGED <<inputs, bundleVars>>
  BY AcceptPositionalStep
<1>2. ns' \in Namespace
  BY <1>1, NamespaceStep
<1>3. claims' \in [1..Len(line') -> Nat]
  BY <1>1, ClaimType DEF inputs
<1>4. given' \in [Arg -> Seq(Word)]
  BY <1>1, GiveType
<1>5. pos' \in Nat \ {0} /\ positionalIndex' \in Nat
  BY <1>1 DEF TypeOK
<1>6. TypeOK'
  BY <1>1, <1>2, <1>3, <1>4, <1>5, AcceptPositionalStep
  DEF TypeOK, inputs, bundleVars, outcome
<1>7. BundleInv'
  BY <1>1 DEF BundleInv, bundleVars
<1> QED
  BY <1>1, <1>6, <1>7 DEF Inv, WordsInv, OptionInv, PositionalInv, SubcommandInv

LEMMA StopTokenInvStep == Inv /\ StopToken => Inv'
<1> SUFFICES ASSUME Inv, StopToken PROVE Inv'
  OBVIOUS
<1>1. TypeOK /\ phase = "stage" /\ pos' = pos + 1 /\ parsingOptions' = FALSE
  BY DEF Inv, StopToken, AtToken
<1>2. bundleAt = 1
  BY DEF Inv, TypeOK, BundleInv, InBundle, StopToken
<1>3. UNCHANGED <<inputs, phase, positionalIndex, bundleVars, loopVars, store,
                  outcome, occurrences, given, asOption, overrun>>
  BY DEF StopToken
<1>4. claims' \in [1..Len(line') -> Nat]
  BY <1>1, <1>3, ClaimType DEF StopToken, inputs
<1>5. pos' \in Nat \ {0}
  BY <1>1 DEF TypeOK
<1>6. TypeOK'
  BY <1>1, <1>3, <1>4, <1>5 DEF TypeOK, inputs, bundleVars, loopVars, store, outcome
<1>7. BundleInv'
  BY <1>2, <1>3 DEF BundleInv, bundleVars
<1> QED
  BY <1>1, <1>3, <1>6, <1>7
  DEF Inv, WordsInv, OptionInv, PositionalInv, SubcommandInv

LEMMA SubcommandInvStep ==
    Inv /\ (EnterSubcommand \/ \E r \in SubReturns : SubcommandReturns(r)) => Inv'
<1> SUFFICES ASSUME Inv
             PROVE  EnterSubcommand \/ (\E r \in SubReturns : SubcommandReturns(r)) => Inv'
  OBVIOUS
<1>1. TypeOK
  BY DEF Inv
<1>2. ASSUME EnterSubcommand PROVE Inv'
  <2>1. pos <= N /\ bundleAt = 1
    BY <1>1, <1>2
    DEF Inv, TypeOK, BundleInv, InBundle, EnterSubcommand, AtPositional, AtToken
  <2>2. /\ phase' = "subcommand"
        /\ parsingOptions' = FALSE
        /\ UNCHANGED <<inputs, pos, positionalIndex, bundleVars, loopVars, store,
                       outcome, history>>
    BY <1>2 DEF EnterSubcommand
  <2>3. TypeOK'
    BY <1>1, <2>2
    DEF TypeOK, inputs, bundleVars, loopVars, store, outcome, history, Phase
  <2>4. BundleInv' /\ SubcommandInv'
    BY <2>1, <2>2 DEF BundleInv, SubcommandInv, bundleVars, inputs, N
  <2> QED
    BY <2>2, <2>3, <2>4 DEF Inv, WordsInv, OptionInv, PositionalInv
<1>3. ASSUME NEW r \in SubReturns, SubcommandReturns(r) PROVE Inv'
  <2>1. /\ r.result \in Result
        /\ r.error \in ErrorCode
        /\ r.ns \in Namespace
        /\ P.commandDest \in Dest
        /\ line[pos] \in Word
    <3>1. pos \in 1..N
      BY <1>1, <1>3, InputsType DEF Inv, TypeOK, SubcommandInv, SubcommandReturns
    <3>2. r \in [result : Result, error : ErrorCode, ns : Namespace]
      BY SubReturnsAssumption
    <3> QED
      BY <1>1, <3>1, <3>2, InputsType DEF ParserSpec
  <2>2. UNCHANGED <<inputs, stageVars, bundleVars, loopVars, groupUsed, history>>
    BY <1>3 DEF SubcommandReturns
  <2>3. CASE r.result = "SUCCESS"
    <3>1. phase' = "required_positionals" /\ UNCHANGED outcome
      BY <1>3, <2>3 DEF SubcommandReturns
    <3>2. [ns EXCEPT ![P.commandDest] = StringValue(line[pos])] \in Namespace
      BY <1>1, <2>1, ConstructorsType DEF TypeOK, Namespace
    <3>3. ns' \in Namespace
      BY <1>3, <2>1, <2>3, <3>2, MergedType DEF SubcommandReturns
    <3>4. TypeOK'
      BY <1>1, <2>2, <3>1, <3>3
      DEF TypeOK, inputs, stageVars, bundleVars, loopVars, outcome, history, Phase
    <3> QED
      BY <2>2, <3>1, <3>4
      DEF Inv, BundleInv, WordsInv, OptionInv, PositionalInv, SubcommandInv,
          InBundle, Tok, N, inputs, stageVars, bundleVars
  <2>4. CASE r.result # "SUCCESS"
    <3>1. /\ phase' = "done"
          /\ result' = r.result
          /\ error' = r.error
          /\ subcommandName' = line[pos]
          /\ UNCHANGED ns
      BY <1>3, <2>4 DEF SubcommandReturns
    <3>2. TypeOK'
      BY <1>1, <2>1, <2>2, <3>1
      DEF TypeOK, inputs, stageVars, bundleVars, loopVars, history, Phase
    <3> QED
      BY <2>2, <3>1, <3>2
      DEF Inv, BundleInv, WordsInv, OptionInv, PositionalInv, SubcommandInv,
          InBundle, Tok, N, inputs, stageVars, bundleVars
  <2> QED
    BY <2>3, <2>4
<1> QED
  BY <1>2, <1>3

(***************************************************************************)
(* The tests after the parse stage, and the steps that end the call.       *)
(***************************************************************************)
LEMMA ChecksInvStep ==
    Inv /\ (\/ CheckRequiredPositionals \/ CheckRequiredOptions \/ CheckPositionalNargs
            \/ CheckRequiredGroups \/ CheckDependencies) => Inv'
<1> USE DEF Phase, ErrorCode
<1>1. Inv /\ CheckRequiredPositionals => Inv'
  BY FailInv, PassInv DEF CheckRequiredPositionals
<1>2. Inv /\ CheckRequiredOptions => Inv'
  BY FailInv, PassInv DEF CheckRequiredOptions
<1>3. Inv /\ CheckPositionalNargs => Inv'
  <2>1. \A arg, n : NargsError(arg, n) \in ErrorCode
    BY DEF NargsError
  <2> QED
    BY <2>1, FailInv, PassInv DEF CheckPositionalNargs
<1>4. Inv /\ CheckRequiredGroups => Inv'
  BY FailInv, PassInv DEF CheckRequiredGroups
<1>5. Inv /\ CheckDependencies => Inv'
  BY FailInv, PassInv DEF CheckDependencies
<1> QED
  BY <1>1, <1>2, <1>3, <1>4, <1>5

LEMMA ApplyDefaultsInvStep == Inv /\ ApplyDefaults => Inv'
<1> SUFFICES ASSUME Inv, ApplyDefaults PROVE Inv'
  OBVIOUS
<1>1. CASE Fail("TYPE_CONVERSION")
  BY <1>1, FailInv DEF ErrorCode
<1>2. CASE ~Fail("TYPE_CONVERSION")
  <2>1. /\ ns' = WithDefaults(P, ns)
        /\ result' = "SUCCESS"
        /\ phase' = "done"
        /\ UNCHANGED <<inputs, stageVars, bundleVars, loopVars, groupUsed, error,
                       subcommandName, history>>
    BY <1>2 DEF ApplyDefaults
  <2>2. ns' \in Namespace
    BY <2>1, WithDefaultsType, InputsType DEF Inv, TypeOK
  <2>3. TypeOK'
    BY <2>1, <2>2
    DEF Inv, TypeOK, inputs, stageVars, bundleVars, loopVars, history, Phase, Result
  <2> QED
    BY <2>1, <2>3
    DEF Inv, BundleInv, WordsInv, OptionInv, PositionalInv, SubcommandInv,
        InBundle, Tok, N, inputs, stageVars, bundleVars
<1> QED
  BY <1>1, <1>2

LEMMA EndingInvStep == Inv /\ (InformationOption \/ Crash) => Inv'
<1> SUFFICES ASSUME Inv, phase' \in {"done", "crashed"},
                    result' \in {result, "HELP", "VERSION"},
                    overrun' \in BOOLEAN,
                    UNCHANGED <<inputs, stageVars, bundleVars, loopVars, store, error,
                                subcommandName, claims, occurrences, given, asOption>>
             PROVE  Inv'
  BY DEF InformationOption, Crash, outcome, history, Inv, TypeOK
<1>1. TypeOK'
  BY DEF Inv, TypeOK, inputs, stageVars, bundleVars, loopVars, store, Phase, Result
<1> QED
  BY <1>1 DEF Inv, BundleInv, WordsInv, OptionInv, PositionalInv, SubcommandInv,
              InBundle, Tok, N, inputs, stageVars, bundleVars

LEMMA NextInv == Inv /\ [Next]_vars => Inv'
<1> SUFFICES ASSUME Inv, [Next]_vars PROVE Inv'
  OBVIOUS
<1>1. CASE AnalyzeRejects \/ UnknownOption \/ ConflictingOption \/ TooManyArguments
  <2>1. \E code \in ErrorCode : Fail(code)
    BY <1>1
    DEF AnalyzeRejects, UnknownOption, ConflictingOption, TooManyArguments, ErrorCode
  <2> QED
    BY <2>1, FailInv
<1>2. CASE AnalyzeAccepts \/ EndOfLine
  <2>1. Pass("stage") \/ Pass("required_positionals")
    BY <1>2 DEF AnalyzeAccepts, EndOfLine, Pass
  <2> QED
    BY <2>1, PassInv DEF Phase
<1>3. CASE StopToken
  BY <1>3, StopTokenInvStep
<1>4. CASE InformationOption \/ Crash
  BY <1>4, EndingInvStep
<1>5. CASE RejectedOption \/ RejectedValue \/ RejectedPositional
  BY <1>5, RejectedInvStep
<1>6. CASE Option
  BY <1>6, OptionInvStep
<1>7. CASE OptionWithValues
  BY <1>7, OptionWithValuesInvStep
<1>8. CASE OptionWithRest
  BY <1>8, OptionWithRestInvStep
<1>9. CASE NextOptionValue
  BY <1>9, NextOptionValueInvStep
<1>10. CASE RestWord
  BY <1>10, RestWordInvStep
<1>11. CASE EnterSubcommand \/ \E r \in SubReturns : SubcommandReturns(r)
  BY <1>11, SubcommandInvStep
<1>12. CASE PositionalRest \/ PositionalValues
  BY <1>12, PositionalWordsInvStep
<1>13. CASE NextPositionalValue
  BY <1>13, NextPositionalValueInvStep
<1>14. CASE PositionalOneOfMany \/ PositionalSingle
  BY <1>14, PositionalWordInvStep
<1>15. CASE \/ CheckRequiredPositionals \/ CheckRequiredOptions \/ CheckPositionalNargs
            \/ CheckRequiredGroups \/ CheckDependencies
  BY <1>15, ChecksInvStep
<1>16. CASE ApplyDefaults
  BY <1>16, ApplyDefaultsInvStep
<1>17. CASE UNCHANGED vars
  BY <1>17 DEF vars, Inv, TypeOK, BundleInv, WordsInv, OptionInv, PositionalInv,
               SubcommandInv, InBundle, Tok, N, P, inputs, stageVars, bundleVars,
               loopVars, store, outcome, history
<1> QED
  BY <1>1, <1>2, <1>3, <1>4, <1>5, <1>6, <1>7, <1>8, <1>9, <1>10, <1>11, <1>12,
     <1>13, <1>14, <1>15, <1>16, <1>17 DEF Next, Returned

(***************************************************************************)
(* Every state of a parse is well formed, whatever the parser and the      *)
(* line: in particular the namespace never holds a malformed entry, the    *)
(* counters of the loops never go negative (they are size_t in the code),  *)
(* and pos never leaves the front of the line.                             *)
(***************************************************************************)
THEOREM TypeCorrect == Spec => []TypeOK
<1>1. Inv => TypeOK
  BY DEF Inv
<1> QED
  BY <1>1, InitInv, NextInv, PTL DEF Spec

THEOREM Invariance == Spec => []Inv
  BY InitInv, NextInv, PTL DEF Spec

-----------------------------------------------------------------------------
(***************************************************************************)
(* Which options are accepted.  The pattern analysis and the parse stage   *)
(* agree on which options exist: a line with an option the analysis finds  *)
(* unknown has no effect at all.  mutex_group_used says exactly which      *)
(* groups have had an option accepted, no group ever has two, and a        *)
(* required group of a parse that succeeds has one.  For every parser and  *)
(* line.                                                                   *)
(***************************************************************************)
(***************************************************************************)
(* A line the analysis rejects never gets further than to its error, and a *)
(* call that has an error or a result is over.                             *)
(***************************************************************************)
RejectedStops ==
    PatternRejects =>
        /\ phase \in {"analyze", "done"}
        /\ \A a \in Arg : occurrences[a] = 0
        /\ result \in {"NONE", "ERROR"}

OutcomeEnds == phase = "done" \/ (error = "NONE" /\ result = "NONE")

AnalysisInv == RejectedStops /\ OutcomeEnds /\ UnknownFoundFirst

-----------------------------------------------------------------------------
LEMMA SamePattern ==
    ASSUME UNCHANGED inputs
    PROVE  PatternRejects' = PatternRejects
  BY DEF PatternRejects, OptionRegion, LookedUp, Lookup, ExactMatches, PrefixMatches,
         Registered, P, N, Tok, inputs

\* The words before and at an unknown option: one of them is not looked up.
Hidden(i) ==
    \E j \in 1..i : \/ Tok(j).kind \notin {"LONG_OPTION", "LONG_OPTION_EQ", "SHORT_OPTION"}
                    \/ line[j] \in NegativeNumber

(***************************************************************************)
(* What the analysis does not find unknown is known, or hidden from it.    *)
(***************************************************************************)
LEMMA KnownOrHidden ==
    ASSUME TypeOK, ~PatternRejects, NEW i \in 1..N,
           Lookup(P, Tok(i)) \in {NoArg, AmbiguousArg}
    PROVE  Hidden(i)
<1> SUFFICES ASSUME ~Hidden(i) PROVE FALSE
  OBVIOUS
<1>1. N \in Nat /\ i \in 1..i
  BY InputsType
<1>2. \A j \in 1..i : /\ Tok(j).kind \in {"LONG_OPTION", "LONG_OPTION_EQ", "SHORT_OPTION"}
                      /\ line[j] \notin NegativeNumber
  BY DEF Hidden
<1>3. i \in OptionRegion
  BY <1>2 DEF OptionRegion
<1>4. LookedUp(i)
  BY <1>1, <1>2 DEF LookedUp
<1> QED
  BY <1>3, <1>4 DEF PatternRejects

LEMMA ActionRecognizes ==
    ASSUME NEW arg, NEW w
    PROVE  ActionError(arg, w) # "UNRECOGNIZED"
  BY DEF ActionError

-----------------------------------------------------------------------------
(***************************************************************************)
(* The steps by what they do to the outcome.                               *)
(***************************************************************************)
FailsOtherwise == \E code \in ErrorCode \ {"UNRECOGNIZED", "NONE"} : Fail(code)

GoesOn == /\ UNCHANGED <<inputs, outcome>>
          /\ phase # "done"
          /\ phase = "analyze" => AnalyzeAccepts

Succeeds == UNCHANGED <<inputs, error>> /\ result' = "SUCCESS" /\ phase' = "done"
            /\ phase = "defaults"

LEMMA RejectingSteps ==
    ASSUME Inv, RejectedOption \/ RejectedValue \/ RejectedPositional
    PROVE  FailsOtherwise /\ phase \notin {"analyze", "done"}
<1>1. ASSUME RejectedOption PROVE FailsOtherwise /\ phase = "stage"
  <2>1. PICK a \in Arg : /\ AtOption
                         /\ OptionError(P.spec[a]) # "NONE"
                         /\ Fail(OptionError(P.spec[a]))
    BY <1>1 DEF RejectedOption, UsableOption, FoundOption
  <2>2. OptionError(P.spec[a]) \in ErrorCode
    BY <2>1, OptionValueType, InputsType DEF Inv
  <2>3. OptionError(P.spec[a]) # "UNRECOGNIZED"
    BY ActionRecognizes DEF OptionError
  <2> QED
    BY <2>1, <2>2, <2>3 DEF FailsOtherwise, AtOption, AtToken
<1>2. ASSUME RejectedValue PROVE FailsOtherwise /\ phase = "option_values"
  <2>1. current \in Arg /\ TypeOK /\ P.spec[current] \in ArgumentSpec
    BY <1>2, InputsType DEF RejectedValue, Inv, WordsInv
  <2>2. WordAt(next) \in Word \cup {NoWord}
    BY <1>2, WordAtType DEF TypeOK, RejectedValue, Inv, WordsInv
  <2>3. OptionValueError(P.spec[current]) \in ErrorCode \ {"UNRECOGNIZED"}
    BY <2>1, <2>2, ActionErrorType, ActionRecognizes DEF OptionValueError, ErrorCode
  <2> QED
    BY <1>2, <2>3 DEF RejectedValue, FailsOtherwise
<1>3. ASSUME RejectedPositional PROVE FailsOtherwise /\ phase = "stage"
  <2>1. PICK a \in Arg : /\ AtPositionalOf(a)
                         /\ PositionalError(P.spec[a]) # "NONE"
                         /\ Fail(PositionalError(P.spec[a]))
    BY <1>3 DEF RejectedPositional
  <2>2. line[pos] \in Word /\ P.spec[a] \in ArgumentSpec
    BY <2>1, InputsType DEF Inv, TypeOK, AtPositionalOf, AtPositional, AtToken
  <2>3. PositionalError(P.spec[a]) \in ErrorCode \ {"UNRECOGNIZED"}
    BY <2>2, ActionErrorType, ActionRecognizes DEF PositionalError, ErrorCode
  <2> QED
    BY <2>1, <2>3 DEF FailsOtherwise, AtPositionalOf, AtPositional, AtToken
<1> QED
  BY <1>1, <1>2, <1>3

LEMMA CheckSteps ==
    ASSUME \/ CheckRequiredPositionals \/ CheckRequiredOptions \/ CheckPositionalNargs
           \/ CheckRequiredGroups \/ CheckDependencies \/ ApplyDefaults
    PROVE  /\ FailsOtherwise \/ GoesOn \/ Succeeds
           /\ phase \notin {"analyze", "done"}
<1>1. CASE CheckRequiredPositionals \/ CheckRequiredOptions
  BY <1>1 DEF CheckRequiredPositionals, CheckRequiredOptions, Pass, FailsOtherwise,
              ErrorCode, GoesOn
<1>2. CASE CheckPositionalNargs
  <2>1. \A arg, m : NargsError(arg, m) \in ErrorCode \ {"UNRECOGNIZED"}
    BY DEF NargsError, ErrorCode
  <2>2. CASE Pass("required_groups")
    BY <1>2, <2>2 DEF CheckPositionalNargs, Pass, GoesOn
  <2>3. CASE ~Pass("required_groups")
    <3>1. PICK i \in DOMAIN P.positionals :
                 /\ NargsError(P.spec[P.positionals[i]], ns) # "NONE"
                 /\ Fail(NargsError(P.spec[P.positionals[i]], ns))
      BY <1>2, <2>3 DEF CheckPositionalNargs
    <3> QED
      BY <1>2, <2>1, <3>1 DEF CheckPositionalNargs, FailsOtherwise
  <2> QED
    BY <2>2, <2>3
<1>3. CASE CheckRequiredGroups \/ CheckDependencies
  BY <1>3 DEF CheckRequiredGroups, CheckDependencies, Pass, FailsOtherwise, ErrorCode,
              GoesOn
<1>4. CASE ApplyDefaults
  BY <1>4 DEF ApplyDefaults, FailsOtherwise, ErrorCode, Succeeds
<1> QED
  BY <1>1, <1>2, <1>3, <1>4

LEMMA OutcomeSteps ==
    ASSUME Inv, [Next]_vars
    PROVE  \/ UNCHANGED vars
           \/ (FailsOtherwise \/ Succeeds) /\ phase \notin {"analyze", "done"}
           \/ GoesOn
           \/ AnalyzeRejects \/ UnknownOption \/ InformationOption
           \/ \E r \in SubReturns : SubcommandReturns(r) /\ ~GoesOn
<1>1. CASE AnalyzeRejects \/ UnknownOption \/ InformationOption
  BY <1>1
<1>2. CASE ConflictingOption \/ TooManyArguments
  BY <1>2 DEF ConflictingOption, FoundOption, AtOption, TooManyArguments, AtPositional,
              AtToken, FailsOtherwise, ErrorCode
<1>3. CASE RejectedOption \/ RejectedValue \/ RejectedPositional
  BY <1>3, RejectingSteps
<1>4. CASE AnalyzeAccepts \/ EndOfLine \/ StopToken
  BY <1>4 DEF AnalyzeAccepts, EndOfLine, StopToken, AtToken, GoesOn
<1>5. CASE Option \/ OptionWithValues \/ OptionWithRest
  BY <1>5 DEF Option, OptionWithValues, OptionWithRest, ApplyOption, UsableOption,
              FoundOption, AtOption, AtToken, GoesOn
<1>6. CASE Crash \/ NextOptionValue \/ RestWord \/ NextPositionalValue
  BY <1>6 DEF Crash, ReadPastEnd, NextOptionValue, RestWord, NextPositionalValue, GoesOn
<1>7. CASE PositionalRest \/ PositionalValues \/ PositionalOneOfMany \/ PositionalSingle
  BY <1>7 DEF PositionalRest, PositionalValues, PositionalOneOfMany, PositionalSingle,
              AcceptPositional, AtPositionalOf, AtPositional, AtToken, GoesOn
<1>8. CASE EnterSubcommand
  BY <1>8 DEF EnterSubcommand, AtPositional, AtToken, GoesOn
<1>9. CASE \E r \in SubReturns : SubcommandReturns(r)
  BY <1>9
<1>10. CASE \/ CheckRequiredPositionals \/ CheckRequiredOptions \/ CheckPositionalNargs
            \/ CheckRequiredGroups \/ CheckDependencies \/ ApplyDefaults
  BY <1>10, CheckSteps
<1>11. CASE UNCHANGED vars
  BY <1>11
<1> QED
  BY <1>1, <1>2, <1>3, <1>4, <1>5, <1>6, <1>7, <1>8, <1>9, <1>10, <1>11
  DEF Next, Returned

(***************************************************************************)
(* A rejected line stays rejected: only its error and the end are left.    *)
(***************************************************************************)
LEMMA RejectedNext ==
    Inv /\ RejectedStops /\ [Next]_vars => RejectedStops'
<1> SUFFICES ASSUME Inv, RejectedStops, [Next]_vars, PatternRejects'
             PROVE  /\ phase' \in {"analyze", "done"}
                    /\ \A a \in Arg : occurrences'[a] = 0
                    /\ result' \in {"NONE", "ERROR"}
  BY DEF RejectedStops
<1>1. CASE UNCHANGED vars
  <2>1. PatternRejects
    BY <1>1, SamePattern DEF vars
  <2> QED
    BY <1>1, <2>1 DEF RejectedStops, vars, outcome, history
<1>2. CASE AnalyzeRejects
  BY <1>2 DEF AnalyzeRejects, Fail, history, RejectedStops
<1>3. CASE UNCHANGED inputs /\ phase \notin {"analyze", "done"}
  BY <1>3, SamePattern DEF RejectedStops
<1>4. CASE AnalyzeAccepts
  BY <1>4, SamePattern DEF AnalyzeAccepts
<1>5. CASE (FailsOtherwise \/ Succeeds) /\ phase \notin {"analyze", "done"}
  BY <1>3, <1>5 DEF FailsOtherwise, Fail, Succeeds
<1>6. CASE GoesOn
  BY <1>3, <1>4, <1>6 DEF GoesOn
<1>7. CASE UnknownOption \/ InformationOption
  BY <1>3, <1>7 DEF UnknownOption, InformationOption, FoundOption, AtOption, AtToken, Fail
<1>8. CASE \E r \in SubReturns : SubcommandReturns(r)
  BY <1>3, <1>8 DEF SubcommandReturns
<1> QED
  BY <1>1, <1>2, <1>5, <1>6, <1>7, <1>8, OutcomeSteps

LEMMA OutcomeNext == Inv /\ OutcomeEnds /\ [Next]_vars => OutcomeEnds'
<1> SUFFICES ASSUME Inv, OutcomeEnds, [Next]_vars PROVE OutcomeEnds'
  OBVIOUS
<1>1. CASE UNCHANGED vars
  BY <1>1 DEF OutcomeEnds, vars, outcome
<1>2. CASE FailsOtherwise \/ Succeeds \/ AnalyzeRejects \/ UnknownOption
  BY <1>2 DEF FailsOtherwise, Succeeds, AnalyzeRejects, UnknownOption, Fail, OutcomeEnds
<1>3. CASE GoesOn
  BY <1>3 DEF GoesOn, OutcomeEnds, outcome
<1>4. CASE InformationOption
  BY <1>4 DEF InformationOption, OutcomeEnds
<1>5. CASE \E r \in SubReturns : SubcommandReturns(r)
  BY <1>5 DEF SubcommandReturns, OutcomeEnds, outcome
<1> QED
  BY <1>1, <1>2, <1>3, <1>4, <1>5, OutcomeSteps

-----------------------------------------------------------------------------
LEMMA FoundFirstNext ==
    Inv /\ AnalysisInv /\ [Next]_vars => UnknownFoundFirst'
<1> SUFFICES ASSUME Inv, AnalysisInv, [Next]_vars PROVE UnknownFoundFirst'
  OBVIOUS
<1> USE DEF AnalysisInv
<1>1. CASE UNCHANGED vars
  BY <1>1 DEF UnknownFoundFirst, vars, inputs, stageVars, outcome, history, P, N, Tok
<1>2. CASE FailsOtherwise
  BY <1>2 DEF FailsOtherwise, Fail, UnknownFoundFirst
<1>3. CASE Succeeds /\ phase \notin {"analyze", "done"}
  BY <1>3 DEF Succeeds, OutcomeEnds, UnknownFoundFirst
<1>4. CASE GoesOn
  BY <1>4 DEF GoesOn, outcome, OutcomeEnds, UnknownFoundFirst
<1>5. CASE AnalyzeRejects
  <2>1. \A a \in Arg : occurrences'[a] = 0
    BY <1>5 DEF AnalyzeRejects, RejectedStops, Fail, history
  <2> QED
    BY <1>5, <2>1 DEF AnalyzeRejects, Fail, UnknownFoundFirst
<1>6. ASSUME phase = "stage" PROVE ~PatternRejects
  BY <1>6 DEF RejectedStops
<1>7. CASE UnknownOption
  <2>1. phase = "stage" /\ pos \in 1..N /\ TypeOK
    BY <1>7, InputsType DEF UnknownOption, AtOption, AtToken, Inv, TypeOK
  <2>2. Hidden(pos)
    <3>1. CASE InBundle
      BY <2>1, <3>1 DEF InBundle, Hidden
    <3>2. CASE ~InBundle
      <4>1. Lookup(P, Tok(pos)) \in {NoArg, AmbiguousArg}
        BY <1>7, <3>2 DEF UnknownOption, OptionToken
      <4> QED
        BY <1>6, <2>1, <4>1, KnownOrHidden
    <3> QED
      BY <3>1, <3>2
  <2>3. UNCHANGED <<inputs, pos>> /\ result' = "ERROR"
    BY <1>7 DEF UnknownOption, Fail, stageVars
  <2> QED
    BY <2>2, <2>3 DEF UnknownFoundFirst, Hidden, inputs, Tok
<1>8. CASE InformationOption
  <2>1. phase = "stage" /\ TypeOK /\ UNCHANGED <<inputs, error>>
    BY <1>8 DEF InformationOption, FoundOption, AtOption, AtToken, Inv
  <2>2. ~PatternRejects /\ error' = "NONE"
    BY <1>6, <2>1 DEF OutcomeEnds
  <2>3. \A i \in 1..N : Lookup(P, Tok(i)) \notin Arg => Hidden(i)
    <3> TAKE i \in 1..N
    <3>1. Lookup(P, Tok(i)) \in Arg \cup {NoArg, AmbiguousArg}
      BY <2>1, InputsType, LookupType DEF ParserSpec, Registered
    <3> QED
      BY <2>1, <2>2, <3>1, KnownOrHidden
  <2> QED
    BY <2>1, <2>2, <2>3
    DEF UnknownFoundFirst, Hidden, inputs, P, N, Tok
<1>9. CASE \E r \in SubReturns : SubcommandReturns(r) /\ ~GoesOn
  <2>1. PICK r \in SubReturns : SubcommandReturns(r) /\ ~GoesOn
    BY <1>9
  <2>2. CASE r.result = "SUCCESS"
    BY <2>1, <2>2 DEF SubcommandReturns, GoesOn
  <2>3. CASE r.result # "SUCCESS"
    <3>1. line[pos] \in Word
      BY <2>1, InputsType DEF SubcommandReturns, Inv, TypeOK, SubcommandInv
    <3>2. subcommandName' # NoWord
      BY <2>1, <2>3, <3>1, AtomsAssumption DEF SubcommandReturns
    <3> QED
      BY <3>2 DEF UnknownFoundFirst
  <2> QED
    BY <2>2, <2>3
<1> QED
  BY <1>1, <1>2, <1>3, <1>4, <1>5, <1>7, <1>8, <1>9, OutcomeSteps

(***************************************************************************)
(* A misspelt option is found before anything is done, for every parser    *)
(* and line: the analysis and the parse stage look up the same options.    *)
(***************************************************************************)
THEOREM UnknownAreFoundFirst == Spec => []UnknownFoundFirst
<1>1. Init => Inv /\ AnalysisInv
  <2> SUFFICES ASSUME Init PROVE AnalysisInv
    BY InitInv
  <2> QED
    BY DEF Init, AnalysisInv, RejectedStops, OutcomeEnds, UnknownFoundFirst
<1>2. Inv /\ AnalysisInv /\ [Next]_vars => (Inv /\ AnalysisInv)'
  <2>1. Inv /\ AnalysisInv /\ [Next]_vars => (RejectedStops /\ OutcomeEnds)'
    BY RejectedNext, OutcomeNext DEF AnalysisInv
  <2> QED
    BY <2>1, NextInv, FoundFirstNext DEF AnalysisInv
<1> QED
  BY <1>1, <1>2, PTL DEF Spec, AnalysisInv

-----------------------------------------------------------------------------
(***************************************************************************)
(* MutexExclusive is not inductive: it needs to know that the flag of a    *)
(* group is up once an option of the group is accepted.  RequiredGroupGiven *)
(* needs the converse, and that a parse that succeeds has passed the test. *)
(***************************************************************************)
FlagWhenUsed ==
    \A a \in Optionals :
        InGroup(P.spec[a]) /\ occurrences[a] > 0 => groupUsed[P.spec[a].group]

UsedWhenFlag ==
    \A g \in GroupId :
        groupUsed[g] => \E a \in Optionals : P.spec[a].group = g /\ occurrences[a] > 0

TestPassed ==
    /\ phase \in {"dependencies", "defaults"} \/ Succeeded =>
          \A g \in P.requiredGroups : groupUsed[g]
    /\ Succeeded => phase = "done"

GroupInv == FlagWhenUsed /\ UsedWhenFlag /\ MutexExclusive

-----------------------------------------------------------------------------
LEMMA OptionalsType ==
    ASSUME TypeOK
    PROVE  /\ Optionals \subseteq Arg
           /\ \A a \in Optionals : P.spec[a].group \in GroupId \cup {NoGroup}
           /\ P.requiredGroups \subseteq GroupId
           /\ Optionals \cap PositionalArgs(P) = {}
<1>1. P \in ParserSpec /\ Optionals \cap PositionalArgs(P) = {}
  BY ParsersAssumption DEF TypeOK, P, Optionals
<1>2. Optionals \subseteq Arg
  BY <1>1 DEF ParserSpec, Optionals, Registered
<1>3. \A a \in Optionals : P.spec[a] \in ArgumentSpec
  BY <1>1, <1>2 DEF ParserSpec
<1> QED
  BY <1>1, <1>2, <1>3 DEF ParserSpec, ArgumentSpec

(***************************************************************************)
(* An argument is accepted in two ways only, and no other step touches the *)
(* flags or the counts of acceptances.                                     *)
(***************************************************************************)
LEMMA AcceptingSteps ==
    ASSUME [Next]_vars
    PROVE  \/ UNCHANGED <<parser, occurrences, groupUsed>>
           \/ \E a \in Arg : ApplyOption(a)
           \/ \E a \in Arg : AcceptPositional(a)
<1>1. CASE Option \/ OptionWithValues \/ OptionWithRest
  BY <1>1 DEF Option, OptionWithValues, OptionWithRest
<1>2. CASE \/ PositionalRest \/ PositionalValues
           \/ PositionalOneOfMany \/ PositionalSingle
  BY <1>2 DEF PositionalRest, PositionalValues, PositionalOneOfMany, PositionalSingle
<1>3. CASE AnalyzeRejects \/ UnknownOption \/ ConflictingOption \/ TooManyArguments
  BY <1>3 DEF AnalyzeRejects, UnknownOption, ConflictingOption, TooManyArguments, Fail,
              inputs, store, history
<1>4. CASE RejectedOption \/ RejectedValue \/ RejectedPositional
  BY <1>4 DEF RejectedOption, RejectedValue, RejectedPositional, Fail,
              inputs, store, history
<1>5. CASE AnalyzeAccepts \/ EndOfLine \/ StopToken \/ InformationOption \/ Crash
  BY <1>5 DEF AnalyzeAccepts, EndOfLine, StopToken, InformationOption, Crash,
              inputs, store, history
<1>6. CASE NextOptionValue \/ RestWord \/ NextPositionalValue
  BY <1>6 DEF NextOptionValue, RestWord, NextPositionalValue, inputs
<1>7. CASE EnterSubcommand \/ \E r \in SubReturns : SubcommandReturns(r)
  BY <1>7 DEF EnterSubcommand, SubcommandReturns, inputs, store, history
<1>8. CASE \/ CheckRequiredPositionals \/ CheckRequiredOptions \/ CheckPositionalNargs
           \/ CheckRequiredGroups \/ CheckDependencies
  BY <1>8 DEF CheckRequiredPositionals, CheckRequiredOptions, CheckPositionalNargs,
              CheckRequiredGroups, CheckDependencies, Pass, Fail, inputs, store, history
<1>9. CASE ApplyDefaults \/ UNCHANGED vars
  BY <1>9 DEF ApplyDefaults, Fail, vars, inputs, store, history
<1> QED
  BY <1>1, <1>2, <1>3, <1>4, <1>5, <1>6, <1>7, <1>8, <1>9 DEF Next, Returned

LEMMA GroupInit == Init => GroupInv /\ TestPassed
<1> SUFFICES ASSUME Init PROVE GroupInv /\ TestPassed
  OBVIOUS
<1>1. TypeOK
  BY InitInv DEF Inv
<1>2. /\ \A a \in Arg : occurrences[a] = 0
      /\ \A g \in GroupId : groupUsed[g] = FALSE
      /\ phase = "analyze" /\ result = "NONE"
  BY DEF Init
<1> QED
  BY <1>1, <1>2, OptionalsType
  DEF GroupInv, FlagWhenUsed, UsedWhenFlag, MutexExclusive, TestPassed, Succeeded

(***************************************************************************)
(* An option is accepted only if its group's flag is down, and puts it up. *)
(***************************************************************************)
LEMMA ApplyOptionGroups ==
    ASSUME Inv, GroupInv, NEW a \in Arg, ApplyOption(a)
    PROVE  GroupInv'
<1>1. TypeOK /\ AtOption /\ parser' = parser
  BY ApplyOptionStep DEF Inv, inputs
<1>2. P' = P /\ Optionals' = Optionals
  BY <1>1 DEF P, Optionals
<1>3. a \in Optionals
  <2>1. Lookup(P, OptionToken) = a
    BY DEF ApplyOption, UsableOption, FoundOption
  <2>2. a # NoArg /\ a # AmbiguousArg
    BY AtomsAssumption
  <2> QED
    BY <1>1, <2>1, <2>2, LookupType, InputsType DEF Optionals
<1>4. /\ occurrences \in [Arg -> Nat]
      /\ occurrences' = [occurrences EXCEPT ![a] = @ + 1]
  BY <1>1 DEF TypeOK, ApplyOption
<1>5. groupUsed \in [GroupId -> BOOLEAN]
  BY <1>1 DEF TypeOK
<1>6. CASE InGroup(P.spec[a])
  <2> DEFINE g == P.spec[a].group
  <2>1. g \in GroupId /\ P.groups # {}
    BY <1>1, <1>3, <1>6, OptionalsType DEF InGroup
  <2>2. groupUsed[g] = FALSE /\ groupUsed' = [groupUsed EXCEPT ![g] = TRUE]
    BY <1>5, <1>6, <2>1 DEF ApplyOption, UsableOption, Conflicting, MarkGroup
  <2>3. \A b \in Optionals : P.spec[b].group = g => occurrences[b] = 0
    <3> SUFFICES ASSUME NEW b \in Optionals, P.spec[b].group = g, occurrences[b] > 0
                 PROVE  FALSE
      BY <1>1, <1>4, OptionalsType
    <3>1. InGroup(P.spec[b])
      BY <1>6 DEF InGroup
    <3> QED
      BY <2>2, <3>1 DEF GroupInv, FlagWhenUsed
  <2>4. FlagWhenUsed'
    BY <1>1, <1>2, <1>4, <1>5, <2>1, <2>2, OptionalsType
    DEF GroupInv, FlagWhenUsed, InGroup
  <2>5. UsedWhenFlag'
    <3> SUFFICES ASSUME NEW h \in GroupId, groupUsed'[h]
                 PROVE  \E b \in Optionals : P.spec[b].group = h /\ occurrences'[b] > 0
      BY <1>2 DEF UsedWhenFlag
    <3>1. CASE h = g
      BY <1>3, <1>4, <3>1
    <3>2. CASE h # g
      <4>1. groupUsed[h]
        BY <1>5, <2>2, <3>2
      <4>2. PICK b \in Optionals : P.spec[b].group = h /\ occurrences[b] > 0
        BY <4>1 DEF GroupInv, UsedWhenFlag
      <4> QED
        BY <1>1, <1>4, <4>2, OptionalsType
    <3> QED
      BY <3>1, <3>2
  <2>6. MutexExclusive'
    <3> SUFFICES ASSUME NEW b \in Optionals, NEW c \in Optionals,
                        InGroup(P.spec[b]),
                        P.spec[b].group = P.spec[c].group,
                        occurrences'[b] > 0, occurrences'[c] > 0
                 PROVE  b = c /\ occurrences'[b] = 1
      BY <1>2 DEF MutexExclusive, InGroup
    <3>1. CASE P.spec[b].group = g
      <4>1. occurrences[a] = 0 /\ occurrences[b] = 0 /\ occurrences[c] = 0
        BY <1>3, <2>3, <3>1
      <4>2. b = a /\ c = a
        BY <1>1, <1>4, <4>1, OptionalsType
      <4> QED
        BY <1>4, <4>1, <4>2
    <3>2. CASE P.spec[b].group # g
      <4>1. b # a /\ c # a
        BY <3>2
      <4>2. occurrences'[b] = occurrences[b] /\ occurrences'[c] = occurrences[c]
        BY <1>1, <1>4, <4>1, OptionalsType
      <4> QED
        BY <4>2 DEF GroupInv, MutexExclusive
    <3> QED
      BY <3>1, <3>2
  <2> QED
    BY <2>4, <2>5, <2>6 DEF GroupInv
<1>7. CASE ~InGroup(P.spec[a])
  <2>1. groupUsed' = groupUsed
    BY <1>7 DEF ApplyOption, MarkGroup
  <2>2. \A b \in Optionals : InGroup(P.spec[b]) => b # a
    BY <1>7
  <2>3. \A b \in Optionals : InGroup(P.spec[b]) => occurrences'[b] = occurrences[b]
    BY <1>1, <1>4, <2>2, OptionalsType
  <2>4. FlagWhenUsed'
    BY <1>2, <2>1, <2>3 DEF GroupInv, FlagWhenUsed, InGroup
  <2>5. UsedWhenFlag'
    <3> SUFFICES ASSUME NEW h \in GroupId, groupUsed[h]
                 PROVE  \E b \in Optionals : P.spec[b].group = h /\ occurrences'[b] > 0
      BY <1>2, <2>1 DEF UsedWhenFlag
    <3>1. PICK b \in Optionals : P.spec[b].group = h /\ occurrences[b] > 0
      BY DEF GroupInv, UsedWhenFlag
    <3> QED
      BY <1>1, <1>4, <3>1, OptionalsType
  <2>6. MutexExclusive'
    <3> SUFFICES ASSUME NEW b \in Optionals, NEW c \in Optionals,
                        InGroup(P.spec[b]),
                        P.spec[b].group = P.spec[c].group,
                        occurrences'[b] > 0, occurrences'[c] > 0
                 PROVE  b = c /\ occurrences'[b] = 1
      BY <1>2 DEF MutexExclusive, InGroup
    <3>1. InGroup(P.spec[c])
      BY DEF InGroup
    <3> QED
      BY <2>3, <3>1 DEF GroupInv, MutexExclusive
  <2> QED
    BY <2>4, <2>5, <2>6 DEF GroupInv
<1> QED
  BY <1>6, <1>7

(***************************************************************************)
(* A positional is never an option: no group sees it.                      *)
(***************************************************************************)
LEMMA AcceptPositionalGroups ==
    ASSUME Inv, GroupInv, NEW a \in Arg, AcceptPositional(a)
    PROVE  GroupInv'
<1>1. TypeOK /\ parser' = parser /\ groupUsed' = groupUsed
  BY AcceptPositionalStep DEF inputs
<1>2. P' = P /\ Optionals' = Optionals
  BY <1>1 DEF P, Optionals
<1>3. a \in PositionalArgs(P)
  <2>1. positionalIndex \in Nat /\ positionalIndex < Len(P.positionals)
    BY <1>1 DEF TypeOK, AcceptPositional, AtPositionalOf
  <2>2. P.positionals \in Seq(Arg)
    BY <1>1, InputsType DEF ParserSpec
  <2>3. positionalIndex + 1 \in DOMAIN P.positionals
    BY <2>1, <2>2
  <2>4. P.positionals[positionalIndex + 1] = a
    BY DEF AcceptPositional, AtPositionalOf
  <2> QED
    BY <2>3, <2>4 DEF PositionalArgs
<1>4. a \notin Optionals
  BY <1>1, <1>3, OptionalsType
<1>5. \A b \in Optionals : occurrences'[b] = occurrences[b]
  BY <1>1, <1>4, OptionalsType DEF TypeOK, AcceptPositional
<1>6. FlagWhenUsed'
  BY <1>1, <1>2, <1>5 DEF GroupInv, FlagWhenUsed, InGroup
<1>7. UsedWhenFlag'
  <2> SUFFICES ASSUME NEW h \in GroupId, groupUsed[h]
               PROVE  \E b \in Optionals : P.spec[b].group = h /\ occurrences'[b] > 0
    BY <1>1, <1>2 DEF UsedWhenFlag
  <2> QED
    BY <1>5 DEF GroupInv, UsedWhenFlag
<1>8. MutexExclusive'
  <2> SUFFICES ASSUME NEW b \in Optionals, NEW c \in Optionals,
                      InGroup(P.spec[b]),
                      P.spec[b].group = P.spec[c].group,
                      occurrences'[b] > 0, occurrences'[c] > 0
               PROVE  b = c /\ occurrences'[b] = 1
    BY <1>2 DEF MutexExclusive, InGroup
  <2> QED
    BY <1>5 DEF GroupInv, MutexExclusive
<1> QED
  BY <1>6, <1>7, <1>8 DEF GroupInv

LEMMA GroupNext == Inv /\ GroupInv /\ [Next]_vars => GroupInv'
<1> SUFFICES ASSUME Inv, GroupInv, [Next]_vars PROVE GroupInv'
  OBVIOUS
<1>1. CASE UNCHANGED <<parser, occurrences, groupUsed>>
  BY <1>1 DEF GroupInv, FlagWhenUsed, UsedWhenFlag, MutexExclusive, Optionals, InGroup, P
<1>2. CASE \E a \in Arg : ApplyOption(a)
  BY <1>2, ApplyOptionGroups
<1>3. CASE \E a \in Arg : AcceptPositional(a)
  BY <1>3, AcceptPositionalGroups
<1> QED
  BY <1>1, <1>2, <1>3, AcceptingSteps

(***************************************************************************)
(* At no time have two options of one mutually exclusive group been        *)
(* accepted, nor one of them twice, for any parser and any line            *)
(* (clap_mutex_check_conflict).                                            *)
(***************************************************************************)
THEOREM GroupsExclude == Spec => []MutexExclusive
<1>1. Inv /\ GroupInv /\ [Next]_vars => (Inv /\ GroupInv)'
  BY NextInv, GroupNext
<1>2. Init => Inv /\ GroupInv
  BY InitInv, GroupInit
<1>3. GroupInv => MutexExclusive
  BY DEF GroupInv
<1> QED
  BY <1>1, <1>2, <1>3, PTL DEF Spec

-----------------------------------------------------------------------------
LEMMA FailTest ==
    ASSUME NEW code, Fail(code)
    PROVE  TestPassed'
  BY DEF Fail, TestPassed, Succeeded

(***************************************************************************)
(* A step of the parse stage neither succeeds nor reaches the phases after *)
(* the test.                                                               *)
(***************************************************************************)
LEMMA EarlyTest ==
    ASSUME TestPassed, phase # "done",
           phase' \notin {"dependencies", "defaults"},
           result' \in {result, "ERROR", "HELP", "VERSION"}
    PROVE  TestPassed'
  BY DEF TestPassed, Succeeded

LEMMA StageTest ==
    ASSUME Inv, TestPassed,
           \/ AnalyzeAccepts \/ EndOfLine \/ StopToken
           \/ Option \/ OptionWithValues \/ OptionWithRest
           \/ NextOptionValue \/ RestWord \/ NextPositionalValue
           \/ PositionalRest \/ PositionalValues
           \/ PositionalOneOfMany \/ PositionalSingle
    PROVE  TestPassed'
<1>1. CASE AnalyzeAccepts \/ EndOfLine \/ StopToken
  BY <1>1, EarlyTest DEF AnalyzeAccepts, EndOfLine, StopToken, AtToken, outcome
<1>2. CASE Option \/ OptionWithValues \/ OptionWithRest
  BY <1>2, EarlyTest
  DEF Option, OptionWithValues, OptionWithRest, ApplyOption, UsableOption, FoundOption,
      AtOption, AtToken, LeaveOption, outcome
<1>3. CASE NextOptionValue
  BY <1>3, EarlyTest DEF NextOptionValue, LeaveOption, outcome
<1>4. CASE RestWord
  BY <1>4, EarlyTest DEF RestWord, LeaveOption, outcome
<1>5. CASE NextPositionalValue
  BY <1>5, EarlyTest DEF NextPositionalValue, outcome
<1>6. CASE PositionalRest \/ PositionalValues \/ PositionalOneOfMany \/ PositionalSingle
  BY <1>6, EarlyTest, AcceptPositionalStep
  DEF PositionalRest, PositionalValues, PositionalOneOfMany, PositionalSingle,
      BeginWords, outcome
<1> QED
  BY <1>1, <1>2, <1>3, <1>4, <1>5, <1>6

LEMMA SubcommandTest ==
    ASSUME TestPassed,
           EnterSubcommand \/ \E r \in SubReturns : SubcommandReturns(r)
    PROVE  TestPassed'
<1>1. CASE EnterSubcommand
  BY <1>1, EarlyTest DEF EnterSubcommand, AtPositional, AtToken, outcome
<1>2. CASE \E r \in SubReturns : SubcommandReturns(r)
  <2>1. PICK r \in SubReturns : SubcommandReturns(r)
    BY <1>2
  <2>2. r.result \in Result
    BY SubReturnsAssumption
  <2> QED
    BY <2>1, <2>2, EarlyTest DEF SubcommandReturns, outcome, Result
<1> QED
  BY <1>1, <1>2

LEMMA CheckTest ==
    ASSUME TestPassed,
           \/ CheckRequiredPositionals \/ CheckRequiredOptions \/ CheckPositionalNargs
           \/ CheckRequiredGroups \/ CheckDependencies \/ ApplyDefaults
    PROVE  TestPassed'
<1> USE DEF Pass, inputs, store, outcome
<1>1. CASE CheckRequiredPositionals \/ CheckRequiredOptions \/ CheckPositionalNargs
  <2>1. CASE Pass("required_options") \/ Pass("positional_nargs") \/ Pass("required_groups")
    BY <1>1, <2>1, EarlyTest
    DEF CheckRequiredPositionals, CheckRequiredOptions, CheckPositionalNargs
  <2>2. CASE \E code : Fail(code)
    BY <2>2, FailTest
  <2> QED
    BY <1>1, <2>1, <2>2
    DEF CheckRequiredPositionals, CheckRequiredOptions, CheckPositionalNargs
<1>2. CASE CheckRequiredGroups
  <2>1. CASE \E g \in P.requiredGroups : ~groupUsed[g]
    BY <1>2, <2>1, FailTest DEF CheckRequiredGroups
  <2>2. CASE \A g \in P.requiredGroups : groupUsed[g]
    BY <1>2, <2>2 DEF CheckRequiredGroups, TestPassed, Succeeded, P
  <2> QED
    BY <2>1, <2>2
<1>3. CASE CheckDependencies
  BY <1>3, FailTest DEF CheckDependencies, TestPassed, Succeeded, P
<1>4. CASE ApplyDefaults
  BY <1>4, FailTest DEF ApplyDefaults, TestPassed, Succeeded, P
<1> QED
  BY <1>1, <1>2, <1>3, <1>4

LEMMA TestNext == Inv /\ TestPassed /\ [Next]_vars => TestPassed'
<1> SUFFICES ASSUME Inv, TestPassed, [Next]_vars PROVE TestPassed'
  OBVIOUS
<1>1. CASE AnalyzeRejects \/ UnknownOption \/ ConflictingOption \/ TooManyArguments
           \/ RejectedOption \/ RejectedValue \/ RejectedPositional
  <2>1. \E code : Fail(code)
    BY <1>1 DEF AnalyzeRejects, UnknownOption, ConflictingOption, TooManyArguments,
                RejectedOption, RejectedValue, RejectedPositional
  <2> QED
    BY <2>1, FailTest
<1>2. CASE InformationOption \/ Crash
  BY <1>2, EarlyTest
  DEF InformationOption, FoundOption, AtOption, AtToken, Crash, ReadPastEnd, outcome
<1>3. CASE UNCHANGED vars
  BY <1>3 DEF TestPassed, Succeeded, P, vars, inputs, store, outcome
<1> QED
  BY <1>1, <1>2, <1>3, StageTest, SubcommandTest, CheckTest DEF Next, Returned

(***************************************************************************)
(* A parse that succeeds has accepted an option of every required group.   *)
(***************************************************************************)
THEOREM RequiredGroups == Spec => []RequiredGroupGiven
<1>1. Init => Inv /\ GroupInv /\ TestPassed
  BY InitInv, GroupInit
<1>2. Inv /\ GroupInv /\ TestPassed /\ [Next]_vars => (Inv /\ GroupInv /\ TestPassed)'
  BY NextInv, GroupNext, TestNext
<1>3. Inv /\ GroupInv /\ TestPassed => RequiredGroupGiven
  BY OptionalsType DEF Inv, GroupInv, UsedWhenFlag, TestPassed, RequiredGroupGiven
<1> QED
  BY <1>1, <1>2, <1>3, PTL DEF Spec
=============================================================================
